---- MODULE Spec2Model ----
(***************************************************************************)
(* A model of the mincepy historian runtime (src/mincepy/historian.py):    *)
(* the identity cache (_up_to_date_objects, _records, _objects), the       *)
(* nested transaction scope, the encode/decode engine with its two-step    *)
(* construction, the two referencers, and the public save/load API.        *)
(*                                                                         *)
(* Live objects are slots of a bounded arena (heap); a handle is a slot    *)
(* number and 0 is Python's None.  Every public operation is one action:   *)
(* the recursive operators below thread a historian state record through   *)
(* the calls the operation makes, exactly in the order of the source.      *)
(***************************************************************************)
EXTENDS Integers, Sequences, FiniteSets, TLC

\* ------------------------------------------------------------------ bounds
MaxH == 7          \* slots of the arena of live objects
MaxRoots == 3      \* objects the application holds at one time
MaxVal == 1        \* attribute values are 0..MaxVal
MaxArch == 4       \* records the archive may hold before saves are cut off
MaxOps == 5        \* operations in one run of Spec
MaxOpsCar == 7     \* operations in one run of SpecCar
MaxOpsGarage == 7  \* operations in one run of SpecGarage
MaxOpsShared == 7  \* operations in one run of SpecShared
MaxOpsCycle == 4   \* operations in one run of SpecCycle
MaxOpsCodec == 3   \* operations in one run of SpecCodec
MaxOpsFlush == 5   \* operations in one run of SpecFlush
MaxOpsSaveAs == 5  \* operations in one run of SpecSaveAs
MaxOpsCopy == 5    \* operations in one run of SpecCopy
MaxOpsTwo == 9     \* operations in one run of SpecTwo
MaxOpsRegistry == 3 \* historian operations in one run of SpecRegistry
MaxOpsPublic == 4  \* operations in one run of SpecPublic
MaxOpsRef == 5     \* operations in one run of SpecRef
MaxOpsBuild == 8   \* operations in one run of SpecBuild
MaxOpsList == 5    \* operations in one run of SpecList
MaxOpsNested == 5  \* operations in one run of SpecNested
MaxWrappers == 1   \* WrapperHelper instances a registry makes

Handles == 1..MaxH
Vals == 0..MaxVal
None == 0
NoId == 0
Unset == -1
NoneHash == -1

\* ------------------------------------------------------------------ values
\* A Python value as it appears in a saved state: tagged by k.
VNone == [k |-> "none"]
VPrim(n) == [k |-> "prim", v |-> n]
VRef(r) == [k |-> "ref", r |-> r]
VObj(h) == [k |-> "obj", h |-> h]
VList(items) == [k |-> "list", items |-> items]
\* a mapping, as the sequence of its (key, val) items in insertion order
VDict(items) == [k |-> "dict", items |-> items]
\* the mapping {TYPE_ID: tid, STATE: state} that marks an encoded object
VEnc(tid, state) == [k |-> "enc", tid |-> tid, state |-> state]

Item(key, val) == [key |-> key, val |-> val]
DGet(d, key) == d.items[CHOOSE i \in 1..Len(d.items) : d.items[i].key = key].val

\* archive.Ref: a namedtuple (obj_id, version)
Ref(id, ver) == [id |-> id, ver |-> ver]
NoRef == Ref(NoId, -1)
\* a key of _objects that is a bare version number, not a Ref (save_as)
IntKey(n) == Ref(NoId, n)

\* ------------------------------------------------------------------ ordered maps
\* A Python dict: a sequence of [k, v] entries in insertion order.
OHas(m, key) == \E i \in 1..Len(m) : m[i].k = key
OIdx(m, key) == CHOOSE i \in 1..Len(m) : m[i].k = key
OGet(m, key) == m[OIdx(m, key)].v
OPut(m, key, val) ==
    IF OHas(m, key) THEN [m EXCEPT ![OIdx(m, key)].v = val]
    ELSE Append(m, [k |-> key, v |-> val])

\* ------------------------------------------------------------------ records
\* archive.DataRecord
NoRecord == [tid |-> "none", id |-> NoId, ver |-> -1, created_in |-> NoId,
             hash |-> <<>>, state |-> VNone]
GetReference(record) == Ref(record.id, record.ver)
\* DataRecord.child_builder(): same object id, next version
ChildBuilder(record) == [record EXCEPT !.ver = record.ver + 1]
\* DataRecord.copy_builder(obj_id=...): same state under a new id, version 0
CopyBuilder(record, id) == [record EXCEPT !.id = id, !.ver = 0]

\* ------------------------------------------------------------------ archive
\* The archive backend as the log of the records handed to save_many.
ArchHas(arch, ref) == \E i \in 1..Len(arch) : GetReference(arch[i]) = ref
ArchLoad(arch, ref) ==
    arch[CHOOSE i \in 1..Len(arch) :
            /\ GetReference(arch[i]) = ref
            /\ \A j \in 1..(i - 1) : GetReference(arch[j]) # ref]
\* Archive.history(obj_id, -1): the last record written for the object id
ArchHasHistory(arch, id) == \E i \in 1..Len(arch) : arch[i].id = id
ArchHistoryLast(arch, id) ==
    arch[CHOOSE i \in 1..Len(arch) :
            /\ arch[i].id = id
            /\ \A j \in (i + 1)..Len(arch) : arch[j].id # id]
RECURSIVE GetSnapshotRefs(_, _)
GetSnapshotRefs(arch, id) ==
    IF arch = <<>> THEN <<>>
    ELSE LET rest == GetSnapshotRefs(SubSeq(arch, 1, Len(arch) - 1), id)
             last == arch[Len(arch)]
         IN IF last.id = id THEN Append(rest, GetReference(last)) ELSE rest


\* ------------------------------------------------------------------ files and the gui
\* the longest file and the greatest byte; byte 0 is the newline
MaxFile == 3
MaxByte == 1
\* BaseFile.READ_SIZE (256 in the source), scaled to the files above
READ_SIZE == 2
\* batch_size of _perform_query (4 in the source), scaled to the results
batch_size == 2
\* calls that invalidate the results in one run of SpecQuery
MaxOpsQuery == 3

\* ------------------------------------------------------------------ live objects
\* One slot of the arena.  type "free" is an unused slot.  Car has make and
\* colour; Garage and CommonGarage have car (a handle or None); ObjRef has
\* obj (_obj: a handle or None), ref (_ref) and loader (_loader).
ObjOf(type, make, colour, car) ==
    [type |-> type, make |-> make, colour |-> colour, car |-> car,
     obj |-> None, ref |-> NoRef, loader |-> "none", items |-> <<>>]
\* ObjRef.__init__
ObjRefOf(obj) == [ObjOf("ObjRef", Unset, Unset, None) EXCEPT !.obj = obj]
\* builtins.List: the entries are objects
ListOf(items) == [ObjOf("List", Unset, Unset, None) EXCEPT !.items = items]
FreeSlot == ObjOf("free", Unset, Unset, None)
\* helper.new(): an instance whose __init__ has not run
Blank(type) == ObjOf(type, Unset, Unset, None)

VARIABLES
    heap,       \* the arena: handle -> object
    roots,      \* handles the application holds
    utd,        \* Historian._up_to_date_objects: object -> Ref
    records,    \* Historian._records: object -> DataRecord
    objects,    \* Historian._objects: Ref -> object
    staged,     \* Historian._staged
    tc,         \* Historian._transaction_count
    reg,        \* Historian._type_registry / _type_ids: the registered types
    arch,       \* the archive: every record written by save_many, in order
    nextId,     \* the archive's next fresh object id
    res,        \* what the last operation was and returned
    nops,       \* operations so far
    lim,        \* operations the run may take
    chain,      \* per object id: the saves of its object (bookkeeping)
    taken,      \* the states objects had when save_snapshot returned a Ref
    resaved,    \* the records save() wrote for an ObjRef (by) that had been
                \* loaded and not dereferenced
    second,     \* a second Historian on the same archive: its tables while
                \* the application works with the first, and the other way round
    helpers,    \* TypeRegistry._helpers: type -> helper, in insertion order
    type_ids,   \* TypeRegistry._type_ids: type id -> type, in insertion order
    made,       \* the WrapperHelper instances the registry has made
    looked,     \* what the last call on the registry was and returned
    cmp,        \* a call of BaseFile.__eq__: its operands, the two opened
                \* files and where the call is
    qm          \* a gui DataRecordQueryModel with its DbModel, the queries
                \* its executor runs and the batches emitted to it

historian == <<heap, roots, utd, records, objects, staged, tc, reg, arch,
               nextId, res, nops, lim, chain, taken, resaved, second>>
registry == <<helpers, type_ids, made, looked>>
clients == <<cmp, qm>>
vars == <<historian, registry, clients>>

\* ------------------------------------------------------------------ the historian state
\* The state threaded through the calls of one operation.  err is the
\* exception in flight ("none": no exception); flushOk says whether the
\* archive accepts save_many during this operation.  Bookkeeping: flushes
\* lists the calls of save_many (the transaction depth at the call and the
\* batch handed over), rbTop and rbInner say whether a transaction of depth
\* 1, of depth 2 or more, was rolled back; used is the set of referencers
\* that save_instance_state, load_instance_state, ref and deref were called
\* with; held and clash are explained at Entered, building, late, found
\* and missed at Building, stagedOf, again, astray and twice at Staging;
\* low and high are the least and the greatest _transaction_count so far,
\* loads the References an ObjRef handed to its loader.
St(h, u, r, o, sg, t, rg, a, n, ok) ==
    [heap |-> h, utd |-> u, records |-> r, objects |-> o, staged |-> sg,
     tc |-> t, reg |-> rg, arch |-> a, nextId |-> n, err |-> "none",
     flushOk |-> ok, flushes |-> <<>>, rbTop |-> FALSE, rbInner |-> FALSE,
     used |-> {}, held |-> {}, clash |-> FALSE,
     building |-> {}, late |-> FALSE, found |-> FALSE, missed |-> FALSE,
     stagedOf |-> <<>>, again |-> FALSE, astray |-> FALSE, twice |-> FALSE,
     low |-> t, high |-> t, loads |-> <<>>]
Ok(s) == s.err = "none"
\* a call made with the referencer rf
Received(s, rf) == [s EXCEPT !.used = @ \cup {rf}]
Raise(s, e) == [s EXCEPT !.err = e]
\* the result of a call: the state after it and the value returned
R(s, v) == [s |-> s, v |-> v]

TypeOf(s, h) == s.heap[h].type

\* the smallest free slot of the arena; running out of slots is a limit of
\* the model, kept as the pseudo-exception "arena"
NewObj(s, type) ==
    IF \A h \in Handles : s.heap[h].type # "free" THEN R(Raise(s, "arena"), None)
    ELSE LET h == CHOOSE x \in Handles :
                     /\ s.heap[x].type = "free"
                     /\ \A y \in 1..(x - 1) : s.heap[y].type # "free"
         IN R([s EXCEPT !.heap[h] = Blank(type)], h)

\* ------------------------------------------------------------------ the application types
\* The types of the tests: Car and Garage of test/test_mongodb.py (the
\* garage keeps its car through the referencer), the Garage of
\* test/common.py (the garage keeps its car by value), here CommonGarage,
\* ObjRef of refs.py and List of builtins.py.
Types == {"Car", "Garage", "CommonGarage", "ObjRef", "List"}
\* issubclass(obj_type, types.SavableComparable)
Compatible(type) == type \in Types

\* What hashing an object raises ("none": nothing).  The Equator walks
\* yield_hashables depth first: an object with neither an equator nor
\* yield_hashables raises TypeError, and an object that is met again while
\* it is being hashed never finishes (RecursionError).  path holds the
\* objects being hashed.
RECURSIVE HashError(_, _, _), HashErrorEach(_, _, _)
HashErrorEach(hp, items, path) ==
    IF items = <<>> THEN "none"
    ELSE LET e == HashError(hp, Head(items), path)
         IN IF e # "none" THEN e ELSE HashErrorEach(hp, Tail(items), path)
HashError(hp, h, path) ==
    IF h = None THEN "none"
    ELSE IF h \in path THEN "RecursionError"
    ELSE CASE hp[h].type = "Car" -> "none"
           [] hp[h].type \in {"Garage", "CommonGarage"} ->
                 HashError(hp, hp[h].car, path \cup {h})
           [] hp[h].type = "ObjRef" -> "none"
           [] hp[h].type = "List" ->
                 HashErrorEach(hp, hp[h].items, path \cup {h})
           [] OTHER -> "TypeError"
Hashable(s, h) == HashError(s.heap, h, {}) = "none"

\* yield_hashables of each type, as the sequence of the values yielded (of
\* an object that can be hashed)
RECURSIVE YieldHashables(_, _), YieldEach(_, _)
YieldEach(s, items) ==
    IF items = <<>> THEN <<>>
    ELSE YieldHashables(s, Head(items)) \o YieldEach(s, Tail(items))
YieldHashables(s, h) ==
    IF h = None THEN <<NoneHash>>
    ELSE LET o == s.heap[h]
         IN CASE o.type = "Car" -> <<o.make, o.colour>>
              [] o.type \in {"Garage", "CommonGarage"} -> YieldHashables(s, o.car)
              [] o.type = "ObjRef" ->
                    IF o.ref = NoRef THEN <<NoneHash>>
                    ELSE <<o.ref.id, o.ref.ver>>
              [] o.type = "List" -> YieldEach(s, o.items)
\* Historian.hash
Hash(s, h) == YieldHashables(s, h)

\* Python's a == b on two values that are objects or None
RECURSIVE PyEq(_, _, _)
PyEq(s, a, b) ==
    IF a = None \/ b = None THEN a = b
    ELSE LET x == s.heap[a]
             y == s.heap[b]
         IN CASE x.type = "Car" ->
                    y.type = "Car" /\ x.make = y.make /\ x.colour = y.colour
              [] x.type \in {"Garage", "CommonGarage"} ->
                    y.type = x.type /\ PyEq(s, x.car, y.car)
              [] x.type = "List" ->
                    /\ y.type = "List" /\ Len(x.items) = Len(y.items)
                    /\ \A i \in 1..Len(x.items) :
                          PyEq(s, x.items[i], y.items[i])
              [] OTHER -> a = b
\* Historian.eq
Eq(s, one, other) == PyEq(s, one, other)

\* ------------------------------------------------------------------ transactions
\* Historian._transaction: the checkpoint is the state at entry (cp).
TxEnter(s) ==
    [s EXCEPT !.tc = @ + 1,
              !.high = IF s.tc + 1 > @ THEN s.tc + 1 ELSE @]
\* archive.save_many(self._staged); self._staged = []
Called(s) == [s EXCEPT !.flushes = Append(@, [depth |-> s.tc,
                                                 batch |-> s.staged])]
\* (a variant that empties the buffer also when the archive fails)
SaveMany_Drop(s) ==
    IF s.flushOk THEN [Called(s) EXCEPT !.arch = @ \o s.staged, !.staged = <<>>]
    ELSE [Raise(Called(s), "IOError") EXCEPT !.staged = <<>>]
SaveMany(s) ==
    IF s.flushOk THEN [Called(s) EXCEPT !.arch = @ \o s.staged, !.staged = <<>>,
                                        !.stagedOf = <<>>]
    ELSE Raise(Called(s), "IOError")
\* Transaction.rollback: raise RollbackTransaction
Rollback(s) == Raise(s, "RollbackTransaction")
\* the except clause: RollbackTransaction is caught, and the three tables
\* are restored
\* (a variant that restores nothing)
Restored_Nothing(cp, s) ==
    IF s.err = "RollbackTransaction"
    THEN [s EXCEPT !.err = "none",
                   !.rbTop = @ \/ s.tc = 1, !.rbInner = @ \/ s.tc > 1]
    ELSE s
\* (a variant that restores the tables and lets the exception pass)
Restored_Passed(cp, s) ==
    IF s.err = "RollbackTransaction"
    THEN [s EXCEPT !.records = cp.records, !.objects = cp.objects,
                   !.utd = cp.utd,
                   !.rbTop = @ \/ s.tc = 1, !.rbInner = @ \/ s.tc > 1]
    ELSE s
Restored(cp, s) ==
    IF s.err = "RollbackTransaction"
    THEN [s EXCEPT !.err = "none",
                   !.records = cp.records, !.objects = cp.objects,
                   !.utd = cp.utd,
                   !.rbTop = @ \/ s.tc = 1, !.rbInner = @ \/ s.tc > 1]
    ELSE s
\* the finally clause, which runs on every exit, also when another
\* exception is in flight
\* (a variant that keeps _up_to_date_objects)
Finally_Keep(s) ==
    IF s.tc # 1 THEN [s EXCEPT !.tc = @ - 1]
    ELSE IF s.staged = <<>> THEN [s EXCEPT !.tc = 0]
    ELSE SaveMany([s EXCEPT !.tc = 0])
\* (a variant that hands the staged records over at every depth)
Finally_Early(s) ==
    IF s.staged = <<>> THEN [s EXCEPT !.tc = @ - 1]
    ELSE SaveMany([s EXCEPT !.tc = @ - 1])
\* (a variant that leaves the count as it is when an exception is in flight)
Finally_Stuck(s) ==
    IF ~Ok(s) THEN s
    ELSE IF s.tc # 1 THEN [s EXCEPT !.tc = @ - 1]
    ELSE IF s.staged = <<>> THEN [s EXCEPT !.tc = 0, !.utd = <<>>]
    ELSE SaveMany([s EXCEPT !.tc = 0, !.utd = <<>>])
Finally(s) ==
    IF s.tc # 1 THEN [s EXCEPT !.tc = @ - 1]
    ELSE IF s.staged = <<>> THEN [s EXCEPT !.tc = 0, !.utd = <<>>]
    ELSE SaveMany([s EXCEPT !.tc = 0, !.utd = <<>>])
\* leaving the scope, with or without an exception in flight
Sunk(s) == [s EXCEPT !.low = IF s.tc < @ THEN s.tc ELSE @]
TxExit(cp, s) == Sunk(Finally(Restored(cp, s)))

\* the objects that set keeps alive through attributes
RECURSIVE Reach(_, _)
Kept(hp, set) ==
    {hp[h].car : h \in set} \cup {hp[h].obj : h \in set}
        \cup UNION {{hp[h].items[i] : i \in 1..Len(hp[h].items)} : h \in set}
Reach(hp, set) ==
    IF Kept(hp, set) \subseteq (set \cup {None}) THEN set
    ELSE Reach(hp, set \cup (Kept(hp, set) \ {None}))

\* Bookkeeping of the objects alive during a call: held are the objects the
\* application holds and those a local variable of a running call holds.
Holding(s, obj) == [s EXCEPT !.held = @ \cup {obj}]
Dropped(cp, r) == R([r.s EXCEPT !.held = cp.held], r.v)
\* obj has just been entered in _up_to_date_objects: clash notes whether
\* another object alive now is kept there under the same Reference
Entered(s, obj) ==
    [s EXCEPT !.clash =
        @ \/ \E i \in 1..Len(s.utd) :
                /\ s.utd[i].k # obj
                /\ s.utd[i].v = OGet(s.utd, obj)
                /\ s.utd[i].k \in Reach(s.heap, s.held)]

\* Bookkeeping of two_step_load: building are the instances under
\* construction (entered by two_step_load, load_instance_state not yet
\* returned) with the Reference of their record.  late notes that the
\* decoding of a record's state, or load_instance_state, began while the
\* instance was not in all three tables under that Reference.
InTables(s, obj, reference) ==
    /\ OHas(s.utd, obj) /\ OGet(s.utd, obj) = reference
    /\ OHas(s.objects, reference) /\ OGet(s.objects, reference) = obj
    /\ OHas(s.records, obj) /\ GetReference(OGet(s.records, obj)) = reference
Building(s, obj, record) ==
    [s EXCEPT !.building = @ \cup {[obj |-> obj, ref |-> GetReference(record)]},
              !.late = @ \/ ~InTables(s, obj, GetReference(record))]
Finishing(s, obj) ==
    [s EXCEPT !.late = @ \/ \E b \in s.building :
                                b.obj = obj /\ ~InTables(s, obj, b.ref)]
Built(s, obj) == [s EXCEPT !.building = {b \in @ : b.obj # obj}]

\* Bookkeeping of the staged buffer: stagedOf[i] is the object staged[i] was
\* built for, and twice notes that a record was staged for an object that
\* had one in the buffer.  again notes that save_object was asked for such
\* an object once more, astray that what it then returned was not the record
\* staged for it.
Staging(s, obj) ==
    [s EXCEPT !.stagedOf = Append(@, obj),
              !.twice = @ \/ \E i \in 1..Len(s.stagedOf) : s.stagedOf[i] = obj]
Reached(s, obj) ==
    IF \A i \in 1..Len(s.stagedOf) : s.stagedOf[i] # obj THEN s
    ELSE [s EXCEPT !.again = TRUE,
                   !.astray = @ \/ ~(/\ OHas(s.records, obj)
                                     /\ Len(s.staged) = Len(s.stagedOf)
                                     /\ \E i \in 1..Len(s.stagedOf) :
                                           /\ s.stagedOf[i] = obj
                                           /\ s.staged[i] = OGet(s.records, obj))]

\* Historian._insert_object
InsertObject(s, obj, record) ==
    Entered([s EXCEPT !.utd = OPut(@, obj, GetReference(record)),
                      !.objects = OPut(@, GetReference(record), obj),
                      !.records = OPut(@, obj, record)], obj)

\* Historian.register_type, given a helper of the type or the class itself;
\* reg stands for both maps, _type_registry and _type_ids
HistorianRegisterType(s, isHelper, type) ==
    IF ~isHelper /\ ~Compatible(type) THEN Raise(s, "TypeError")
    ELSE [s EXCEPT !.reg = @ \cup {type}]

\* Historian._ensure_compatible
EnsureCompatible(s, type) ==
    IF type \in s.reg THEN s
    ELSE IF Compatible(type) THEN HistorianRegisterType(s, TRUE, type)
    ELSE Raise(s, "TypeError")

\* Historian._get_latest_snapshot_reference: get_snapshot_refs(obj_id)[-1]
HasSnapshot(s, id) == GetSnapshotRefs(s.arch, id) # <<>>
LatestRef(s, id) == GetSnapshotRefs(s.arch, id)[Len(GetSnapshotRefs(s.arch, id))]

\* ------------------------------------------------------------------ save and load
\* A referencer is "pinned" (the historian itself) or "latest"
\* (LatestReferencer).  Each operator below is one function of the source or
\* the rest of one after a call it makes (the state the call returns is the
\* operator's parameter).
RECURSIVE SaveObject(_, _, _), SaveObjectChecked(_, _, _),
          SaveObjectReloaded(_, _, _, _, _), TwoStepSave(_, _, _),
          TwoStepSaveEncoded(_, _, _, _), Encode(_, _), EncodeObj(_, _),
          EncodeState(_, _), EncodeList(_, _), EncodeListRest(_, _),
          EncodeDict(_, _), EncodeDictRest(_, _, _),
          SaveInstanceState(_, _, _), RefOp(_, _, _), LoadObject(_, _, _),
          LoadObjectFrom(_, _, _),
          TwoStepLoad(_, _, _), TwoStepLoadNew(_, _, _, _), Decode(_, _, _),
          DecodeState(_, _, _), DecodeNew(_, _, _), DecodeList(_, _, _),
          DecodeListRest(_, _, _), DecodeDict(_, _, _),
          DecodeDictRest(_, _, _, _), CreateFromExit(_, _, _, _),
          CreateFromDecoded(_, _, _), LoadInstanceState(_, _, _, _),
          Deref(_, _, _)

\* the value a call returns, seen through f; the state is kept
WithRef(r) == R(r.s, VRef(GetReference(r.v)))
WithCar(r) == R(r.s, VDict(<<Item("car", r.v)>>))
WithList(r) == R(r.s, VList(r.v))
WithDict(r) == R(r.s, VDict(r.v))
WithEnc(tid, r) == R(r.s, VEnc(tid, r.v))
WithHead(x, r) == R(r.s, <<x>> \o r.v)
\* ObjRef.save_instance_state: [ref.obj_id, ref.version]
WithIdVersion(r) ==
    IF ~Ok(r.s) THEN R(r.s, VNone)
    ELSE R(r.s, VList(<<VPrim(r.v.r.id), VPrim(r.v.r.ver)>>))
\* a transaction scope around a call that returns r
Left(cp, r) == R(TxExit(cp, r.s), r.v)

\* Historian.ref, which LatestReferencer.ref delegates to
RefOp(s, obj, rf) ==
    IF obj = None THEN R(s, VNone)
    ELSE WithRef(SaveObject(Received(s, rf), obj, "pinned"))

\* save_instance_state of each type
SaveInstanceState(s, h, rf) ==
    CASE s.heap[h].type = "Car" ->
           R(s, VDict(<<Item("make", VPrim(s.heap[h].make)),
                        Item("colour", VPrim(s.heap[h].colour))>>))
      [] s.heap[h].type = "Garage" -> WithCar(RefOp(s, s.heap[h].car, rf))
      [] s.heap[h].type = "CommonGarage" ->
           R(s, VDict(<<Item("car", IF s.heap[h].car = None THEN VNone
                                    ELSE VObj(s.heap[h].car))>>))
      [] s.heap[h].type = "ObjRef" ->
           IF s.heap[h].ref # NoRef
           THEN R(s, VList(<<VPrim(s.heap[h].ref.id),
                             VPrim(s.heap[h].ref.ver)>>))
           ELSE IF s.heap[h].obj = None
           THEN R(Raise(s, "AssertionError"), VNone)
           ELSE WithIdVersion(RefOp(s, s.heap[h].obj, rf))
      [] s.heap[h].type = "List" ->
           R(s, VList([i \in 1..Len(s.heap[h].items) |->
                          VObj(s.heap[h].items[i])]))
      [] OTHER -> R(Raise(s, "TypeError"), VNone)

\* Historian.encode: the state is always saved with the historian itself
\* as the referencer
Encode(s, v) ==
    CASE v.k = "list" -> WithList(EncodeList(s, v.items))
      [] v.k = "dict" -> WithDict(EncodeDict(s, v.items))
      [] v.k = "enc" -> WithEnc(v.tid, Encode(s, v.state))
      [] v.k = "obj" -> EncodeObj(EnsureCompatible(s, TypeOf(s, v.h)), v.h)
      [] OTHER -> R(s, v)
\* ... after _ensure_compatible
EncodeObj(s1, h) ==
    IF ~Ok(s1) THEN R(s1, VNone)
    ELSE EncodeState(SaveInstanceState(Received(s1, "pinned"), h, "pinned"),
                     TypeOf(s1, h))
\* ... after save_instance_state
EncodeState(st, tid) ==
    IF ~Ok(st.s) THEN R(st.s, VNone)
    ELSE WithEnc(tid, Encode(st.s, st.v))

EncodeList(s, items) ==
    IF items = <<>> THEN R(s, <<>>)
    ELSE EncodeListRest(Encode(s, Head(items)), Tail(items))
EncodeListRest(hd, rest) ==
    IF ~Ok(hd.s) THEN R(hd.s, <<>>)
    ELSE WithHead(hd.v, EncodeList(hd.s, rest))

EncodeDict(s, items) ==
    IF items = <<>> THEN R(s, <<>>)
    ELSE EncodeDictRest(Encode(s, Head(items).val), Head(items).key,
                        Tail(items))
EncodeDictRest(hd, key, rest) ==
    IF ~Ok(hd.s) THEN R(hd.s, <<>>)
    ELSE WithHead(Item(key, hd.v), EncodeDict(hd.s, rest))

\* Historian.two_step_save
TwoStepSave(s, obj, builder) ==
    TwoStepSaveEncoded(
        s, obj, builder,
        Encode(Entered([TxEnter(s) EXCEPT
                           !.utd = OPut(@, obj, Ref(builder.id, builder.ver)),
                           !.objects = OPut(@, Ref(builder.id, builder.ver),
                                            obj)], obj),
               VObj(obj)))
\* (a variant that stages the record twice)
TwoStepSaveEncoded_Twice(s, obj, builder, en) ==
    IF ~Ok(en.s) THEN R(TxExit(s, en.s), NoRecord)
    ELSE LET record == [builder EXCEPT !.tid = en.v.tid,
                                       !.state = en.v.state]
         IN R(TxExit(s, [en.s EXCEPT !.records = OPut(@, obj, record),
                                     !.stagedOf = Append(@, obj),
                                     !.staged = Append(Append(@, record),
                                                       record)]),
              record)
\* (a variant that puts the record in front of the staged buffer)
TwoStepSaveEncoded_First(s, obj, builder, en) ==
    IF ~Ok(en.s) THEN R(TxExit(s, en.s), NoRecord)
    ELSE LET record == [builder EXCEPT !.tid = en.v.tid,
                                       !.state = en.v.state]
         IN R(TxExit(s, [en.s EXCEPT !.records = OPut(@, obj, record),
                                     !.stagedOf = <<obj>> \o @,
                                     !.staged = <<record>> \o @]),
              record)
\* ... after encode: builder.update, build, _records, _staged
TwoStepSaveEncoded(s, obj, builder, en) ==
    IF ~Ok(en.s) THEN R(TxExit(s, en.s), NoRecord)
    ELSE LET record == [builder EXCEPT !.tid = en.v.tid,
                                       !.state = en.v.state]
         IN R(TxExit(s, [Staging(en.s, obj) EXCEPT
                            !.records = OPut(@, obj, record),
                            !.staged = Append(@, record)]),
              record)

\* Historian.save_object
\* (a variant that writes a new version of an object that is up to date)
SaveObject_Again(s, obj, rf) ==
    IF OHas(s.utd, obj) THEN
        IF OHas(s.records, obj)
        THEN TwoStepSave(Reached(s, obj), obj,
                         ChildBuilder(OGet(s.records, obj)))
        ELSE R(Raise(s, "KeyError"), NoRecord)
    ELSE SaveObjectChecked(EnsureCompatible(s, TypeOf(s, obj)), obj, rf)
SaveObject(s, obj, rf) ==
    IF OHas(s.utd, obj) THEN
        IF OHas(s.records, obj)
        THEN R(Reached(s, obj), OGet(s.records, obj))
        ELSE R(Raise(s, "KeyError"), NoRecord)
    ELSE SaveObjectChecked(EnsureCompatible(s, TypeOf(s, obj)), obj, rf)
\* ... after _ensure_compatible
SaveObjectChecked(s1, obj, rf) ==
    IF ~Ok(s1) THEN R(s1, NoRecord)
    ELSE IF ~Hashable(s1, obj)
    THEN R(Raise(s1, HashError(s1.heap, obj, {})), NoRecord)
    ELSE IF ~OHas(s1.records, obj) THEN
        TwoStepSave([s1 EXCEPT !.nextId = @ + 1], obj,
                    [tid |-> TypeOf(s1, obj), id |-> s1.nextId, ver |-> 0,
                     created_in |-> NoId, hash |-> Hash(s1, obj),
                     state |-> VNone])
    ELSE SaveObjectReloaded(
             s1, obj, OGet(s1.records, obj), Hash(s1, obj),
             TwoStepLoad(TxEnter(s1), OGet(s1.records, obj), rf))
\* (a variant that always takes the object to be identical to its record)
SaveObjectReloaded_Keep(s1, obj, record, current_hash, ld) ==
    IF ~Ok(ld.s) THEN R(TxExit(s1, ld.s), NoRecord)
    ELSE R(TxExit(s1, Rollback(ld.s)), record)
\* ... after two_step_load, inside the transaction opened at s1
SaveObjectReloaded(s1, obj, record, current_hash, ld) ==
    IF ~Ok(ld.s) THEN R(TxExit(s1, ld.s), NoRecord)
    ELSE IF current_hash = record.hash /\ Eq(ld.s, obj, ld.v)
    THEN R(TxExit(s1, Rollback(ld.s)), record)
    ELSE Dropped(s1, Left(s1, TwoStepSave(Holding(ld.s, ld.v), obj,
                                          [ChildBuilder(record) EXCEPT
                                              !.hash = current_hash])))

\* the reference a referencer resolves a stored reference to: the historian
\* the reference itself, LatestReferencer the latest of its object id
\* (variants in which the referencer makes no difference)
DerefTarget_Latest(s, r, rf) == LatestRef(s, r.id)
DerefTarget_Pinned(s, r, rf) == r
DerefTarget(s, r, rf) == IF rf = "pinned" THEN r ELSE LatestRef(s, r.id)

\* Historian.deref and LatestReferencer.deref
Deref(s, v, rf) ==
    IF v.k = "none" THEN R(s, None)
    ELSE IF rf = "latest" /\ ~HasSnapshot(s, v.r.id)
    THEN R(Raise(s, "IndexError"), None)
    ELSE LoadObject(Received(s, rf), DerefTarget(s, v.r, rf), rf)

\* Garage.load_instance_state after deref: __init__(car)
GarageInit(d, h) ==
    IF ~Ok(d.s) THEN d.s
    ELSE [d.s EXCEPT !.heap[h] = ObjOf("Garage", Unset, Unset, d.v)]

\* load_instance_state of each type; returns the state
LoadInstanceState(s, h, decoded, rf) ==
    CASE s.heap[h].type = "Car" ->
           [s EXCEPT !.heap[h] = ObjOf("Car", DGet(decoded, "make").v,
                                       DGet(decoded, "colour").v, None)]
      [] s.heap[h].type = "Garage" ->
           GarageInit(Deref(s, DGet(decoded, "car"), rf), h)
      [] s.heap[h].type = "CommonGarage" ->
           [s EXCEPT !.heap[h] =
               ObjOf("CommonGarage", Unset, Unset,
                     IF DGet(decoded, "car").k = "obj"
                     THEN DGet(decoded, "car").h ELSE None)]
      [] s.heap[h].type = "ObjRef" ->
           [s EXCEPT !.heap[h] =
               [ObjRefOf(None) EXCEPT
                   !.ref = Ref(decoded.items[1].v, decoded.items[2].v),
                   !.loader = rf]]
      [] s.heap[h].type = "List" ->
           [s EXCEPT !.heap[h] =
               ListOf([i \in 1..Len(decoded.items) |-> decoded.items[i].h])]
      [] OTHER -> Raise(s, "TypeError")

\* Historian.create_from, from the yield on: the finally clause decodes the
\* state it was given and finishes the instance
CreateFromExit(s, new_obj, encoded_saved_state, rf) ==
    CreateFromDecoded(Decode(s, encoded_saved_state, rf), new_obj, rf)
\* ... after decode
CreateFromDecoded(d, new_obj, rf) ==
    IF ~Ok(d.s) THEN d.s
    ELSE LoadInstanceState(Finishing(Received(d.s, rf), new_obj), new_obj,
                           d.v, rf)

\* Historian.decode
Decode(s, encoded, rf) ==
    CASE encoded.k = "obj" -> R(Raise(s, "TypeError"), VNone)
      [] encoded.k = "enc" ->
           IF encoded.tid \notin s.reg THEN R(Raise(s, "KeyError"), VNone)
           ELSE DecodeState(Decode(s, encoded.state, rf), encoded.tid, rf)
      [] encoded.k = "dict" -> WithDict(DecodeDict(s, encoded.items, rf))
      [] encoded.k = "list" -> WithList(DecodeList(s, encoded.items, rf))
      [] OTHER -> R(s, encoded)
\* ... after the state is decoded: create_from, helper.new
DecodeState(saved_state, tid, rf) ==
    IF ~Ok(saved_state.s) THEN R(saved_state.s, VNone)
    ELSE DecodeNew(NewObj(saved_state.s, tid), saved_state.v, rf)
\* ... the with block returns the new object, then create_from finishes it
DecodeNew(n, saved_state, rf) ==
    IF ~Ok(n.s) THEN R(n.s, VNone)
    ELSE R(CreateFromExit(n.s, n.v, saved_state, rf), VObj(n.v))

DecodeList(s, items, rf) ==
    IF items = <<>> THEN R(s, <<>>)
    ELSE DecodeListRest(Decode(s, Head(items), rf), Tail(items), rf)
DecodeListRest(hd, rest, rf) ==
    IF ~Ok(hd.s) THEN R(hd.s, <<>>)
    ELSE WithHead(hd.v, DecodeList(hd.s, rest, rf))

DecodeDict(s, items, rf) ==
    IF items = <<>> THEN R(s, <<>>)
    ELSE DecodeDictRest(Decode(s, Head(items).val, rf), Head(items).key,
                        Tail(items), rf)
DecodeDictRest(hd, key, rest, rf) ==
    IF ~Ok(hd.s) THEN R(hd.s, <<>>)
    ELSE WithHead(Item(key, hd.v), DecodeDict(hd.s, rest, rf))

\* Historian.two_step_load
TwoStepLoad(s, record, rf) ==
    IF record.tid \notin s.reg THEN R(Raise(s, "ValueError"), None)
    ELSE TwoStepLoadNew(s, NewObj(TxEnter(s), record.tid), record, rf)
\* (a variant that enters the instance in the tables once it is finished)
TwoStepLoadNew_Late(s, n, record, rf) ==
    IF ~Ok(n.s) THEN R(TxExit(s, n.s), None)
    ELSE R(TxExit(s, InsertObject(
                         Built(CreateFromExit(Building(n.s, n.v, record),
                                              n.v, record.state, rf), n.v),
                         n.v, record)),
           n.v)
\* ... with the blank instance: _insert_object, then create_from finishes it
TwoStepLoadNew(s, n, record, rf) ==
    IF ~Ok(n.s) THEN R(TxExit(s, n.s), None)
    ELSE R(TxExit(s, Built(CreateFromExit(
                               Building(InsertObject(n.s, n.v, record), n.v,
                                        record),
                               n.v, record.state, rf), n.v)),
           n.v)

\* the first object of _up_to_date_objects kept under the reference
UpToDate(s, reference) ==
    s.utd[CHOOSE i \in 1..Len(s.utd) :
             /\ s.utd[i].v = reference
             /\ \A j \in 1..(i - 1) : s.utd[j].v # reference].k


\* Historian.load_object, after two_step_load inside the transaction opened
\* at s: keep the object we have if it is identical to the loaded one
LoadObjectReloaded(s, obj, ld) ==
    IF ~Ok(ld.s) THEN R(TxExit(s, ld.s), None)
    ELSE IF ~Hashable(ld.s, obj)
    THEN R(TxExit(s, Raise(ld.s, HashError(ld.s.heap, obj, {}))), None)
    ELSE IF ~Hashable(ld.s, ld.v)
    THEN R(TxExit(s, Raise(ld.s, HashError(ld.s.heap, ld.v, {}))), None)
    ELSE IF Hash(ld.s, obj) = Hash(ld.s, ld.v) /\ Eq(ld.s, obj, ld.v)
    THEN R(TxExit(s, Rollback(ld.s)), obj)
    ELSE R(TxExit(s, ld.s), ld.v)

\* a lookup of a Reference whose instance is under construction: found
\* notes that it returned that instance, missed that it did not
Sought(s, reference) ==
    IF \A b \in s.building : b.ref # reference THEN s
    ELSE IF /\ \E i \in 1..Len(s.utd) : s.utd[i].v = reference
            /\ \E b \in s.building :
                  b.ref = reference /\ b.obj = UpToDate(s, reference)
    THEN [s EXCEPT !.found = TRUE]
    ELSE [s EXCEPT !.missed = TRUE]
\* Historian.load_object
LoadObject(s, reference, rf) ==
    LoadObjectFrom(Sought(s, reference), reference, rf)
LoadObjectFrom(s, reference, rf) ==
    IF \E i \in 1..Len(s.utd) : s.utd[i].v = reference
    THEN R(s, UpToDate(s, reference))
    ELSE IF ~ArchHas(s.arch, reference) THEN R(Raise(s, "NotFound"), None)
    ELSE IF ~OHas(s.objects, reference)
    THEN TwoStepLoad(s, ArchLoad(s.arch, reference), rf)
    ELSE LoadObjectReloaded(
             s, OGet(s.objects, reference),
             TwoStepLoad(TxEnter(s), ArchLoad(s.arch, reference), rf))

\* ------------------------------------------------------------------ reachability
\* CPython frees an object when the last reference to it goes; the weak
\* tables then lose its entries.  Live are the objects the application
\* holds and those they keep through their attributes.  Objects that keep
\* each other in a cycle, and what they keep, are not freed by reference
\* counts: they stay, in the weak tables too, until the cyclic collector
\* runs.

Collected(s, live) ==
    [s EXCEPT !.heap = [h \in Handles |->
                           IF h \in live THEN s.heap[h] ELSE FreeSlot],
              !.utd = SelectSeq(@, LAMBDA e : e.k \in live),
              !.records = SelectSeq(@, LAMBDA e : e.k \in live),
              !.objects = SelectSeq(@, LAMBDA e : e.v \in live)]
OnCycle(hp, h) == h \in Reach(hp, Kept(hp, {h}) \ {None})
Alive(hp, rts) ==
    LET live == Reach(hp, rts)
        dead == {h \in Handles : hp[h].type # "free"} \ live
    IN live \cup Reach(hp, {h \in dead : OnCycle(hp, h)})
Collect(s, rts) == Collected(s, Alive(s.heap, rts))
\* a pass of the cyclic collector
CollectCycles(s, rts) == Collected(s, Reach(s.heap, rts))

\* ------------------------------------------------------------------ the type registry
\* type_registry.TypeRegistry.  The classes of the application: Car, its
\* subclass SportsCar and SportsCar's subclass Racer derive from
\* types.Object, and so does Garage; int does not.
Classes == {"Car", "SportsCar", "Racer", "Garage", "int"}
Bases(c) ==
    CASE c = "Car" -> {"Object"}
      [] c = "SportsCar" -> {"Car"}
      [] c = "Racer" -> {"SportsCar"}
      [] c = "Garage" -> {"Object"}
      [] OTHER -> {}
\* issubclass(c, d)
RECURSIVE IsSubclass(_, _)
IsSubclass(c, d) == c = d \/ \E b \in Bases(c) : IsSubclass(b, d)
\* the TYPE_ID attribute of each class
ClassTypeId(c) ==
    CASE c = "Car" -> 1
      [] c = "SportsCar" -> 2
      [] c = "Racer" -> 3
      [] c = "Garage" -> 4
      [] OTHER -> 0
TypeIds == {ClassTypeId(c) : c \in Classes \ {"int"}} \cup {5}

\* a TypeHelper: its TYPE (a class, or several classes when iterable), its
\* TYPE_ID, and which instance it is
Helper(types, iterable, tid, inst) ==
    [TYPE |-> types, iterable |-> iterable, TYPE_ID |-> tid, inst |-> inst]
NoHelper == Helper(<<>>, FALSE, 0, 0)
\* WrapperHelper.__init__: the n-th instance made
WrapperHelperOf(c, n) == Helper(<<c>>, FALSE, ClassTypeId(c), n)
\* the helpers the application wrote itself: one for Car and Garage both,
\* and one for SportsCar under the type id of Car
BothHelper == Helper(<<"Car", "Garage">>, TRUE, 5, -1)
SportsHelper == Helper(<<"SportsCar">>, FALSE, 1, -2)

\* what register_type can be given: a TypeHelper, a class, or something else
Arg(k, c, helper, tid) == [k |-> k, c |-> c, helper |-> helper, tid |-> tid]
NoArg == Arg("none", "none", NoHelper, 0)
OfHelper(helper) == Arg("helper", "none", helper, 0)
OfClass(c) == Arg("class", c, NoHelper, 0)
OfId(tid) == Arg("id", "none", NoHelper, tid)
Registrable ==
    {OfHelper(BothHelper), OfHelper(SportsHelper), Arg("other", "none", NoHelper, 0)}
        \cup {OfClass(c) : c \in {"Car", "SportsCar", "Garage", "int"}}

\* the registry during a call: its two maps, and the exception raised and
\* the value returned
Rg(h, t, m) == [helpers |-> h, type_ids |-> t, made |-> m, err |-> "none",
                ret |-> NoHelper, tid |-> 0]

\* helper.TYPE if isinstance(helper.TYPE, Iterable) else (helper.TYPE,)
ObjTypes(helper) == IF helper.iterable THEN helper.TYPE ELSE <<helper.TYPE[1]>>
\* TypeRegistry.register_type: the loop over obj_types, and the return
RECURSIVE RegisterEach(_, _, _)
RegisterEach(rg, helper, obj_types) ==
    IF obj_types = <<>> THEN [rg EXCEPT !.ret = helper]
    ELSE RegisterEach(
             [rg EXCEPT !.helpers = OPut(@, Head(obj_types), helper),
                        !.type_ids = OPut(@, helper.TYPE_ID, Head(obj_types))],
             helper, Tail(obj_types))
\* (a variant that enters the class before it checks it)
RegisterType_Unchecked(rg, x) ==
    IF x.k = "helper" THEN RegisterEach(rg, x.helper, ObjTypes(x.helper))
    ELSE IF x.k # "class" THEN [rg EXCEPT !.err = "TypeError"]
    ELSE IF ~IsSubclass(x.c, "Object")
    THEN [RegisterEach(rg, WrapperHelperOf(x.c, rg.made + 1), <<x.c>>)
             EXCEPT !.err = "TypeError", !.ret = NoHelper]
    ELSE RegisterEach([rg EXCEPT !.made = @ + 1],
                      WrapperHelperOf(x.c, rg.made + 1), <<x.c>>)
\* TypeRegistry.register_type
RegisterType(rg, x) ==
    IF x.k = "helper" THEN RegisterEach(rg, x.helper, ObjTypes(x.helper))
    ELSE IF x.k # "class" \/ ~IsSubclass(x.c, "Object")
    THEN [rg EXCEPT !.err = "TypeError"]
    ELSE RegisterEach([rg EXCEPT !.made = @ + 1],
                      WrapperHelperOf(x.c, rg.made + 1), <<x.c>>)

\* the first entry of a map, in insertion order, that satisfies Test
FirstWith(m, Test(_)) ==
    CHOOSE i \in 1..Len(m) : Test(m[i]) /\ \A j \in 1..(i - 1) : ~Test(m[j])
\* (a variant in which the last matching type wins)
GetHelperFromObjType_Last(rg, obj_type) ==
    IF OHas(rg.helpers, obj_type)
    THEN [rg EXCEPT !.ret = OGet(rg.helpers, obj_type)]
    ELSE IF \E i \in 1..Len(rg.helpers) : IsSubclass(obj_type, rg.helpers[i].k)
    THEN [rg EXCEPT !.ret =
             rg.helpers[CHOOSE i \in 1..Len(rg.helpers) :
                           /\ IsSubclass(obj_type, rg.helpers[i].k)
                           /\ \A j \in (i + 1)..Len(rg.helpers) :
                                 ~IsSubclass(obj_type, rg.helpers[j].k)].v]
    ELSE [rg EXCEPT !.err = "ValueError"]
\* TypeRegistry.get_helper_from_obj_type
GetHelperFromObjType(rg, obj_type) ==
    IF OHas(rg.helpers, obj_type)
    THEN [rg EXCEPT !.ret = OGet(rg.helpers, obj_type)]
    ELSE IF \E i \in 1..Len(rg.helpers) : IsSubclass(obj_type, rg.helpers[i].k)
    THEN [rg EXCEPT !.ret =
             rg.helpers[FirstWith(rg.helpers,
                                  LAMBDA e : IsSubclass(obj_type, e.k))].v]
    ELSE [rg EXCEPT !.err = "ValueError"]
\* TypeRegistry.get_helper_from_type_id
GetHelperFromTypeId(rg, type_id) ==
    IF ~OHas(rg.type_ids, type_id) THEN [rg EXCEPT !.err = "KeyError"]
    ELSE GetHelperFromObjType(rg, OGet(rg.type_ids, type_id))
\* TypeRegistry.get_type_id
GetTypeId(rg, obj_type) ==
    IF OHas(rg.helpers, obj_type)
    THEN [rg EXCEPT !.tid = OGet(rg.helpers, obj_type).TYPE_ID]
    ELSE IF \E i \in 1..Len(rg.type_ids) : IsSubclass(obj_type, rg.type_ids[i].v)
    THEN [rg EXCEPT !.tid =
             rg.type_ids[FirstWith(rg.type_ids,
                                   LAMBDA e : IsSubclass(obj_type, e.v))].k]
    ELSE [rg EXCEPT !.err = "ValueError"]

\* TypeRegistry.__init__
NoLook == [op |-> "init", arg |-> NoArg, err |-> "none", ret |-> NoHelper,
           tid |-> 0, helpers |-> <<>>, type_ids |-> <<>>]
EmptyRegistry ==
    /\ helpers = <<>> /\ type_ids = <<>> /\ made = 0 /\ looked = NoLook

\* ------------------------------------------------------------------ bookkeeping
\* The state of an object as the application sees it: a car's attributes, a
\* garage's car.
RECURSIVE StateOf(_, _)
StateOf(hp, h) ==
    IF h = None THEN <<NoneHash>>
    ELSE CASE hp[h].type = "Car" -> <<hp[h].make, hp[h].colour>>
           [] hp[h].type \in {"Garage", "CommonGarage"} -> StateOf(hp, hp[h].car)
           [] hp[h].type = "List" ->
                IF hp[h].items = <<>> THEN <<>>
                ELSE StateOf(hp, Head(hp[h].items))
                         \o StateOf([hp EXCEPT ![h].items = Tail(@)], h)
           [] OTHER -> <<>>

\* equality of two values under each type's own equality
RECURSIVE ValEq(_, _, _)
ValEq(s, a, b) ==
    IF a.k # b.k THEN FALSE
    ELSE CASE a.k = "obj" -> PyEq(s, a.h, b.h)
           [] a.k = "list" ->
                /\ Len(a.items) = Len(b.items)
                /\ \A i \in 1..Len(a.items) : ValEq(s, a.items[i], b.items[i])
           [] a.k = "dict" ->
                /\ Len(a.items) = Len(b.items)
                /\ \A i \in 1..Len(a.items) :
                      /\ a.items[i].key = b.items[i].key
                      /\ ValEq(s, a.items[i].val, b.items[i].val)
           [] OTHER -> a = b

MaxIds == MaxArch
NoChain == [n |-> 0, owner |-> None, last |-> <<>>, pure |-> TRUE]
\* chain[id].n counts the save() calls on the object that id was issued for
\* (owner) that followed a change of its state; pure says that every record
\* of id was written by such a call.
ChainAfter(result, rts) ==
    LET h == result.obj
        oid == result.retId
        mine == /\ result.op = "save" /\ result.err = "none"
                /\ (result.prior = NoRecord \/ chain[oid].owner = h)
        content == StateOf(heap, h)
        changed == mine /\ (result.prior = NoRecord \/ chain[oid].last # content)
        wroteFor(id) == \E i \in 1..Len(result.wrote) : result.wrote[i].id = id
    IN [id \in 1..MaxIds |->
          LET c == chain[id]
              c1 == IF mine /\ id = oid
                    THEN [n |-> c.n + (IF changed THEN 1 ELSE 0), owner |-> h,
                          last |-> content,
                          pure |-> c.pure /\ (changed \/ ~wroteFor(id))]
                    ELSE [c EXCEPT !.pure = c.pure /\ ~wroteFor(id)]
          IN IF c1.owner \in rts THEN c1 ELSE [c1 EXCEPT !.owner = None]]

TakenAfter(result) ==
    IF result.op = "save_snapshot" /\ result.err = "none"
    THEN taken \cup {[ref |-> result.retRef, state |-> StateOf(heap, result.obj)]}
    ELSE taken

ResavedAfter(result) ==
    IF /\ result.op = "save" /\ result.err = "none"
       /\ heap[result.obj].type = "ObjRef" /\ heap[result.obj].ref # NoRef
    THEN resaved \cup {[ref |-> GetReference(result.wrote[i]),
                         by |-> result.obj] :
                          i \in {j \in 1..Len(result.wrote) :
                                    result.wrote[j].id = result.retId}}
    ELSE resaved

\* ------------------------------------------------------------------ the public operations
\* the historian as the operation finds it
Cur ==
    [St(heap, utd, records, objects, staged, tc, reg, arch, nextId, TRUE)
        EXCEPT !.held = roots]

\* the saved object differs from the object reloaded from its record
Differs(obj, ld) == Ok(ld.s) /\ ~Eq(ld.s, obj, ld.v)
\* whether save() finds obj changed: by hash, or by equality with the
\* reloaded record
Stale(op, obj) ==
    /\ op = "save" /\ obj # None /\ OHas(records, obj)
    /\ Hashable(Cur, obj)
    /\ \/ Hash(Cur, obj) # OGet(records, obj).hash
       \/ Differs(obj, TwoStepLoad(TxEnter(Cur), OGet(records, obj), "latest"))

\* the Reference a load resolves to, the object _objects keeps under it, and
\* whether that object is identical (hash and equality) to the record
\* decoded anew
Target(op, id, ref) ==
    IF op = "load" THEN (IF HasSnapshot(Cur, id) THEN LatestRef(Cur, id)
                         ELSE NoRef)
    ELSE IF op = "load_snapshot" THEN ref
    ELSE NoRef
Hit(target) ==
    IF OHas(objects, target) /\ ArchHas(arch, target)
    THEN OGet(objects, target) ELSE None
Identical(obj, ld) ==
    /\ Ok(ld.s) /\ Hashable(ld.s, obj) /\ Hashable(ld.s, ld.v)
    /\ Hash(ld.s, obj) = Hash(ld.s, ld.v) /\ Eq(ld.s, obj, ld.v)
Matches(op, target) ==
    /\ Hit(target) # None
    /\ Identical(Hit(target),
                 TwoStepLoad(TxEnter(Cur), ArchLoad(arch, target),
                             IF op = "load" THEN "latest" ELSE "pinned"))

\* the object id that save() returned for obj before, if it did
SavedAs(obj) ==
    IF obj # None /\ \E id \in 1..MaxIds : chain[id].owner = obj
    THEN CHOOSE id \in 1..MaxIds : chain[id].owner = obj
    ELSE NoId

\* what an operation leaves in res: its name, arguments and outcome, the
\* record its object had before (prior), the records it wrote to the
\* archive (wrote), whether a saved object differed from its record (stale),
\* the staged buffer it found (pending), whether it left the three tables as
\* it found them (kept), the referencers its nested calls were made with
\* (used), the registered types it found (regBefore), the class
\* register_type was given (cls), whether two objects alive at the time
\* were kept in _up_to_date_objects under one Reference (clash), the object
\* id an earlier save() of the object returned (prevId), the bookkeeping of
\* two_step_load (late, found, missed) and of the staged buffer (again,
\* astray, twice), the least and the greatest _transaction_count it
\* reached (low, high), whether it or an operation before it raised
\* (failed) or met a failure of the archive (unflushed), the References
\* an ObjRef handed to its loader (loads) and the object the ObjRef held
\* when it was called (had),
\* and the name, arguments and outcome of the operation before it (p...)
Result(op, obj, id, ref, s, ret, retId, retRef, entries) ==
    [op |-> op, obj |-> obj, id |-> id, ref |-> ref, err |-> s.err,
     ret |-> ret, retId |-> retId, retRef |-> retRef, entries |-> entries,
     prior |-> IF obj # None /\ OHas(records, obj) THEN OGet(records, obj)
               ELSE NoRecord,
     wrote |-> SubSeq(s.arch, Len(arch) + 1, Len(s.arch)),
     nextIdBefore |-> nextId,
     stale |-> Stale(op, obj),
     target |-> Target(op, id, ref),
     hit |-> Hit(Target(op, id, ref)),
     match |-> Matches(op, Target(op, id, ref)),
     pending |-> staged, flushes |-> s.flushes,
     rbTop |-> s.rbTop, rbInner |-> s.rbInner,
     kept |-> FALSE, would |-> <<>>, rivals |-> {},
     arg |-> VNone, same |-> FALSE, used |-> s.used,
     regBefore |-> reg, cls |-> "none", clash |-> s.clash,
     prevId |-> SavedAs(obj),
     late |-> s.late, found |-> s.found, missed |-> s.missed,
     again |-> s.again, astray |-> s.astray, twice |-> s.twice,
     low |-> s.low, high |-> s.high,
     loads |-> s.loads, had |-> IF obj = None THEN None ELSE heap[obj].obj,
     failed |-> res.failed \/ s.err # "none",
     unflushed |-> res.unflushed \/ s.err = "IOError",
     pop |-> res.op, pobj |-> res.obj, perr |-> res.err, pret |-> res.ret,
     pretId |-> res.retId, pid |-> res.id, prbTop |-> res.rbTop]
NoResult ==
    [op |-> "init", obj |-> None, id |-> NoId, ref |-> NoRef, err |-> "none",
     ret |-> None, retId |-> NoId, retRef |-> NoRef, entries |-> <<>>,
     prior |-> NoRecord, wrote |-> <<>>,
     nextIdBefore |-> 1, stale |-> FALSE,
     target |-> NoRef, hit |-> None, match |-> FALSE,
     pending |-> <<>>, flushes |-> <<>>, rbTop |-> FALSE, rbInner |-> FALSE,
     kept |-> FALSE, would |-> <<>>, rivals |-> {},
     arg |-> VNone, same |-> FALSE, used |-> {},
     regBefore |-> {}, cls |-> "none", clash |-> FALSE, prevId |-> NoId,
     late |-> FALSE, found |-> FALSE, missed |-> FALSE,
     again |-> FALSE, astray |-> FALSE, twice |-> FALSE,
     low |-> 0, high |-> 0, failed |-> FALSE, unflushed |-> FALSE,
     loads |-> <<>>, had |-> None,
     pop |-> "init", pobj |-> None, perr |-> "none", pret |-> None,
     pretId |-> NoId, pid |-> NoId, prbTop |-> FALSE]

\* the historian that is not in use: its weak tables lose the objects that
\* were freed; writers notes, for each record of the archive, which of the
\* two historians (cur: the one in use) wrote it
Parked(g) ==
    [second EXCEPT
        !.utd = SelectSeq(@, LAMBDA e : g.heap[e.k].type # "free"),
        !.records = SelectSeq(@, LAMBDA e : g.heap[e.k].type # "free"),
        !.objects = SelectSeq(@, LAMBDA e : g.heap[e.v].type # "free"),
        !.writers = @ \o [i \in 1..(Len(g.arch) - Len(arch)) |-> second.cur]]

\* the operation is over: the application holds rts, and g is the historian
\* after everything unreachable is freed
Finished(g, rts, result) ==
    /\ heap' = g.heap
    /\ utd' = g.utd
    /\ records' = g.records
    /\ objects' = g.objects
    /\ staged' = g.staged
    /\ tc' = g.tc
    /\ reg' = g.reg
    /\ arch' = g.arch
    /\ nextId' = g.nextId
    /\ roots' = rts
    /\ res' = [result EXCEPT !.kept = /\ g.records = records
                                       /\ g.objects = objects
                                       /\ g.utd = utd]
    /\ chain' = ChainAfter(result, rts)
    /\ taken' = TakenAfter(result)
    /\ resaved' = ResavedAfter(result)
    /\ nops' = nops + 1
    /\ lim' = lim
    /\ second' = Parked(g)
    /\ UNCHANGED <<registry, clients>>
Finish(s, rts, result) ==
    /\ nops < lim
    /\ s.err # "arena"
    /\ Len(s.arch) <= MaxArch
    /\ s.nextId <= MaxIds + 1
    /\ Cardinality(rts) <= MaxRoots
    /\ Finished(Collect(s, rts), rts, result)

\* what the application keeps of a call that returns an object
Returned(r) == IF Ok(r.s) /\ r.v # None THEN {r.v} ELSE {}
ReturnedObj(r) == IF Ok(r.s) THEN r.v ELSE None

\* Historian.save
SaveReturn(h, r) ==
    Finish(r.s, roots,
           Result("save", h, NoId, NoRef, r.s, None,
                  IF Ok(r.s) THEN r.v.id ELSE NoId, NoRef, <<>>))
Save(h) == SaveReturn(h, SaveObject(Cur, h, "latest"))

\* Historian.save while the archive backend fails every save_many; would is
\* what the same call writes when the backend works
SaveOfflineReturn(h, r, ok) ==
    Finish(r.s, roots,
           [Result("save", h, NoId, NoRef, r.s, None,
                   IF Ok(r.s) THEN r.v.id ELSE NoId, NoRef, <<>>)
               EXCEPT !.would = SubSeq(ok.s.arch, Len(arch) + 1,
                                       Len(ok.s.arch))])
SaveOffline(h) ==
    SaveOfflineReturn(h, SaveObject([Cur EXCEPT !.flushOk = FALSE], h,
                                    "latest"),
                      SaveObject(Cur, h, "latest"))

\* Historian.save_as, up to the call of save_object, inside the transaction:
\* the loop over _records leaves the last matching entry in current_obj and
\* current_record, and the last entry it visited in record
LastWith(recs, obj_id) ==
    IF \E i \in 1..Len(recs) : recs[i].v.id = obj_id
    THEN CHOOSE i \in 1..Len(recs) :
            /\ recs[i].v.id = obj_id
            /\ \A j \in (i + 1)..Len(recs) : recs[j].v.id # obj_id
    ELSE 0
SaveAsPrepared(s, obj, obj_id) ==
    LET i == LastWith(s.records, obj_id)
        popped == IF i # 0
                  THEN SelectSeq(s.records, LAMBDA e : e.k # s.records[i].k)
                  ELSE s.records
        current_record ==
            IF i # 0 THEN s.records[i].v
            ELSE IF ArchHasHistory(s.arch, obj_id)
            THEN ArchHistoryLast(s.arch, obj_id)
            ELSE NoRecord
    IN IF current_record = NoRecord THEN [s EXCEPT !.records = popped]
       ELSE IF s.records = <<>>
       THEN Raise([s EXCEPT !.records = OPut(popped, obj, current_record)],
                  "UnboundLocalError")
       ELSE [s EXCEPT
                !.records = OPut(popped, obj, current_record),
                !.objects = OPut(@, IntKey(s.records[Len(s.records)].v.ver),
                                 obj)]
\* ... the call of save_object and the end of the transaction opened at cp
SaveAsBody(cp, p, obj) ==
    IF ~Ok(p) THEN R(TxExit(cp, p), NoRecord)
    ELSE Left(cp, SaveObject(p, obj, "latest"))
\* the other live objects whose record has the object id
Rivals(obj, obj_id) ==
    {records[i].k : i \in {j \in 1..Len(records) :
                              /\ records[j].v.id = obj_id
                              /\ records[j].k # obj}}
SaveAsReturn(h, obj_id, r) ==
    Finish(r.s, roots,
           [Result("save_as", h, obj_id, NoRef, r.s, None,
                   IF Ok(r.s) THEN obj_id ELSE NoId, NoRef, <<>>)
               EXCEPT !.rivals = Rivals(h, obj_id)])
SaveAs(h, obj_id) ==
    SaveAsReturn(h, obj_id,
                 SaveAsBody(Cur, SaveAsPrepared(TxEnter(Cur), h, obj_id), h))

\* Historian.save_snapshot
SaveSnapshotReturn(h, r) ==
    Finish(r.s, roots,
           Result("save_snapshot", h, NoId, NoRef, r.s, None, NoId,
                  IF Ok(r.s) THEN GetReference(r.v) ELSE NoRef, <<>>))
SaveSnapshot(h) == SaveSnapshotReturn(h, SaveObject(Cur, h, "pinned"))

\* Historian.ref, called by the application
RefReturn(h, r) ==
    Finish(r.s, roots,
           Result("ref", h, NoId, NoRef, r.s, None, NoId,
                  IF Ok(r.s) /\ r.v.k = "ref" THEN r.v.r ELSE NoRef, <<>>))
RefCall(h) == RefReturn(h, RefOp(Cur, h, "pinned"))

\* Historian.deref, called by the application
DerefReturn(ref, r) ==
    Finish(r.s, roots \cup Returned(r),
           Result("deref", None, NoId, ref, r.s, ReturnedObj(r), NoId, NoRef,
                  <<>>))
DerefCall(ref) == DerefReturn(ref, Deref(Cur, VRef(ref), "pinned"))

\* Historian.load
LoadReturn(id, r) ==
    Finish(r.s, roots \cup Returned(r),
           Result("load", None, id, NoRef, r.s, ReturnedObj(r), NoId, NoRef,
                  <<>>))
\* x is what load was given: an object id, or something of another type
HistorianLoad(s, x) ==
    IF x.k # "prim" THEN R(Raise(s, "TypeError"), None)
    ELSE IF ~HasSnapshot(s, x.v) THEN R(Raise(s, "IndexError"), None)
    ELSE LoadObject(s, LatestRef(s, x.v), "latest")
Load(id) == LoadReturn(id, HistorianLoad(Cur, VPrim(id)))

\* self._loader.load(self._ref) of ObjRef.__call__: the loader is the
\* referencer load_instance_state was given.  The historian has a load,
\* which is handed the Reference; a LatestReferencer has ref and deref and
\* no load, so the attribute lookup fails and nothing is handed over
LoaderLoad(s, loader, ref) ==
    IF loader = "pinned"
    THEN HistorianLoad([s EXCEPT !.loads = Append(@, ref)], VRef(ref))
    ELSE R(Raise(s, "AttributeError"), None)
\* ObjRef.__call__, after the loader returned: cache the object
ObjRefCached(ld, h) ==
    IF ~Ok(ld.s) THEN ld
    ELSE IF ld.v = None THEN R(Raise(ld.s, "AssertionError"), None)
    ELSE R([ld.s EXCEPT !.heap[h] = ObjRefOf(ld.v)], ld.v)
\* ObjRef.__call__
ObjRefCall(s, h) ==
    IF s.heap[h].obj # None THEN R(s, s.heap[h].obj)
    ELSE IF s.heap[h].ref = NoRef THEN R(Raise(s, "RuntimeError"), None)
    ELSE ObjRefCached(LoaderLoad(s, s.heap[h].loader, s.heap[h].ref), h)
CallReturn(h, r) ==
    Finish(r.s, roots \cup Returned(r),
           Result("call", h, NoId, heap[h].ref, r.s, ReturnedObj(r), NoId,
                  NoRef, <<>>))
Call(h) == heap[h].type = "ObjRef" /\ CallReturn(h, ObjRefCall(Cur, h))

\* Historian.load_snapshot
LoadSnapshotReturn(ref, r) ==
    Finish(r.s, roots \cup Returned(r),
           Result("load_snapshot", None, NoId, ref, r.s, ReturnedObj(r), NoId,
                  NoRef, <<>>))
LoadSnapshot(ref) == LoadSnapshotReturn(ref, LoadObject(Cur, ref, "pinned"))

\* ------------------------------------------------------------------ files (builtins.py)
Bytes == 0 .. MaxByte
Contents == UNION {[1 .. n -> Bytes] : n \in 0 .. MaxFile}
\* an operand of ==: its class and its contents
DiskFile(data) == <<"DiskFile", data>>
\* an operand that is not a BaseFile
NotAFile(data) == <<"bytes", data>>
IsBaseFile(x) == x[1] = "DiskFile"
DataOf(x) == x[2]
\* what readline returns from a file opened in binary mode, and the str ''
BytesOf(data) == [kind |-> "bytes", data |-> data]
EmptyStr == [kind |-> "str", data |-> <<>>]
Closed == [mode |-> "closed", data |-> <<>>, pos |-> 0]
\* DiskFile.open: open(self._path, mode='rb')
DiskFileOpen(file) == [mode |-> "rb", data |-> DataOf(file), pos |-> 0]
\* readline(size): up to size bytes, ending after the first newline
LineEnd(f, size) ==
    LET stops == {p \in (f.pos + 1) .. Len(f.data) :
                     p - f.pos = size \/ f.data[p] = 0}
    IN IF stops = {} THEN Len(f.data)
       ELSE CHOOSE p \in stops : \A q \in stops : p <= q
Readline(f, size) == BytesOf(SubSeq(f.data, f.pos + 1, LineEnd(f, size)))
Advanced(f, size) == [f EXCEPT !.pos = LineEnd(f, size)]
NoCall ==
    [pc |-> "idle", self |-> DiskFile(<<>>), other |-> DiskFile(<<>>),
     my_file |-> Closed, other_file |-> Closed, ret |-> FALSE, lap |-> 0]
EqReturned(c, value) ==
    [c EXCEPT !.pc = "done", !.ret = value, !.my_file = Closed,
              !.other_file = Closed]
\* BaseFile.__eq__ up to the loop
BaseFileEq(self, other) ==
    IF ~IsBaseFile(other)
    THEN EqReturned([NoCall EXCEPT !.self = self, !.other = other], FALSE)
    ELSE [NoCall EXCEPT !.pc = "reading", !.self = self, !.other = other,
                        !.my_file = DiskFileOpen(self),
                        !.other_file = DiskFileOpen(other)]
\* one pass of the loop of BaseFile.__eq__; lap is the parity of the passes
BaseFileEqPass(c) ==
    LET my_line == Readline(c.my_file, READ_SIZE)
        other_line == Readline(c.other_file, READ_SIZE)
    IN IF my_line # other_line THEN EqReturned(c, FALSE)
       ELSE IF my_line = EmptyStr /\ other_line = EmptyStr
       THEN EqReturned(c, TRUE)
       ELSE [c EXCEPT !.my_file = Advanced(@, READ_SIZE),
                      !.other_file = Advanced(@, READ_SIZE),
                      !.lap = 1 - @]

\* ------------------------------------------------------------------ the query model (gui/models.py)
\* What DbModel.historian can be set to: None, a Historian of historian.py
\* (its find takes obj_type, criteria and limit only), or a historian whose
\* find takes the keywords the gui passes ("Finder").  The executor is the
\* one given to __init__: a callable like common.default_executor
\* ("callable"), or the ThreadPoolExecutor that gui/views.py passes
\* ("pool"), which cannot be called.
Historians == {"None", "Historian", "Finder"}
Executors == {"callable", "pool"}
\* The records of the archive; odd records are of the type a restriction
\* selects, and the query "late" leaves out the first of every three.
Stored == <<1, 2, 3>>
Queries == {"all", "late", "None"}
Sorts == {"None", "desc"}
Restrictions == {"None", "odd"}
Reverse(rows) == [i \in 1 .. Len(rows) |-> rows[Len(rows) + 1 - i]]
\* historian.find(**query, as_objects=False)
Find(query) ==
    LET Test(r) == /\ query.query = "late" => r % 3 # 1
                   /\ query.obj_type = "odd" => r % 2 = 1
        rows == SelectSeq(Stored, Test)
    IN IF query.sort = "desc" THEN Reverse(rows) ELSE rows
\* DataRecordQueryModel.__init__.  tasks are the calls of _perform_query
\* the executor holds, events the _new_results signals not yet delivered;
\* err is what the last call on the gui thread raised and raised what the
\* last call of _perform_query that failed raised on its thread; gen
\* counts the invalidations, and every task and batch carries the count of
\* the invalidation that started it.
NewModel(executor) ==
    [executor |-> executor, historian |-> "None", query |-> "all",
     unset |-> TRUE, results |-> <<>>, sort |-> "None",
     type_restriction |-> "None", tasks |-> <<>>, events |-> <<>>,
     gen |-> 0, stale |-> FALSE, err |-> "none", raised |-> "none"]
\* self._executor(partial(self._perform_query, query), ...): a callable
\* executor runs the call later, on another thread; calling a
\* ThreadPoolExecutor raises TypeError
Executor(m, query) ==
    IF m.executor = "pool" THEN [m EXCEPT !.err = "TypeError"]
    ELSE [m EXCEPT !.tasks = Append(@, [gen |-> m.gen, query |-> query,
                                         pc |-> "queued", todo |-> <<>>,
                                         batch |-> <<>>])]
UpdateResults(m) ==
    IF m.query = "None" \/ m.historian = "None"
    THEN [m EXCEPT !.unset = FALSE, !.results = <<>>]
    ELSE Executor([m EXCEPT !.unset = FALSE, !.results = <<>>],
                  [query |-> m.query, obj_type |-> m.type_restriction,
                   sort |-> m.sort])
InvalidateResults(m) ==
    UpdateResults([m EXCEPT !.unset = TRUE, !.results = <<>>,
                            !.gen = @ + 1, !.err = "none"])
\* _new_results.emit(batch) from the thread of the query
Emit(m, task) ==
    [m EXCEPT !.events = Append(@, [gen |-> task.gen, rows |-> task.batch])]
Without(tasks, i) ==
    [j \in 1 .. (Len(tasks) - 1) |-> IF j < i THEN tasks[j] ELSE tasks[j + 1]]
\* _perform_query reaches the loop: the historian is read now, and
\* find(**query, as_objects=False) is called; an exception ends the call
PerformQuery(m, i) ==
    IF m.historian = "None"
    THEN [m EXCEPT !.tasks = Without(@, i), !.raised = "AttributeError"]
    ELSE IF m.historian = "Historian"
    THEN [m EXCEPT !.tasks = Without(@, i), !.raised = "TypeError"]
    ELSE [m EXCEPT !.tasks[i].pc = "running",
                   !.tasks[i].todo = Find(m.tasks[i].query)]
\* one result of find, or the end of the loop
PerformQueryNext(m, i) ==
    LET task == m.tasks[i]
        batch == Append(task.batch, Head(task.todo))
    IN IF task.todo = <<>>
       THEN [(IF task.batch # <<>> THEN Emit(m, task) ELSE m)
                EXCEPT !.tasks = Without(@, i)]
       ELSE IF Len(batch) = batch_size
       THEN [Emit(m, [task EXCEPT !.batch = batch])
                EXCEPT !.tasks[i].todo = Tail(@), !.tasks[i].batch = <<>>]
       ELSE [m EXCEPT !.tasks[i].todo = Tail(@), !.tasks[i].batch = batch]
\* _inject_results with the batch of the oldest signal
InjectResults(m) ==
    LET batch == Head(m.events)
    IN IF m.unset
       THEN [m EXCEPT !.events = Tail(@), !.err = "TypeError"]
       ELSE [m EXCEPT !.events = Tail(@), !.results = @ \o batch.rows,
                      !.stale = @ \/ batch.gen # m.gen]

\* Historian.history with the default '*': every snapshot, oldest first
RECURSIVE LoadAll(_, _), LoadAllRest(_, _, _)
LoadAll(s, refs) ==
    IF refs = <<>> THEN R(s, <<>>)
    ELSE LoadAllRest(LoadObject(s, Head(refs), "pinned"), Head(refs),
                     Tail(refs))
LoadAllRest(hd, ref, rest) ==
    IF ~Ok(hd.s) THEN R(hd.s, <<>>)
    ELSE WithHead([ref |-> ref, obj |-> hd.v], LoadAll(hd.s, rest))
HistoryReturn(id, r) ==
    Finish(r.s, roots,
           Result("history", None, id, NoRef, r.s, None, NoId, NoRef,
                  IF Ok(r.s) THEN r.v ELSE <<>>))
History(id) == HistoryReturn(id, LoadAll(Cur, GetSnapshotRefs(arch, id)))

\* (a variant that builds the copy's record under the id of the original)
CopySaved_Shared(s, obj, sv) ==
    IF ~Ok(sv.s) THEN R(TxExit(s, sv.s), None)
    ELSE LET copy_builder == ChildBuilder(sv.v)
             n == NewObj(sv.s, TypeOf(sv.s, obj))
         IN IF ~Ok(n.s) THEN R(TxExit(s, n.s), None)
            ELSE R(TxExit(s, [InsertObject([n.s EXCEPT !.heap[n.v] =
                                                n.s.heap[obj]],
                                           n.v, copy_builder)
                                 EXCEPT !.staged = Append(@, copy_builder)]),
                   n.v)
\* Historian.copy, after save_object inside the transaction opened at s
CopySaved(s, obj, sv) ==
    IF ~Ok(sv.s) THEN R(TxExit(s, sv.s), None)
    ELSE LET copy_builder == CopyBuilder(sv.v, sv.s.nextId)
             n == NewObj([sv.s EXCEPT !.nextId = @ + 1], TypeOf(sv.s, obj))
         IN IF ~Ok(n.s) THEN R(TxExit(s, n.s), None)
            ELSE R(TxExit(s, [InsertObject([n.s EXCEPT !.heap[n.v] =
                                                n.s.heap[obj]],
                                           n.v, copy_builder)
                                 EXCEPT !.staged = Append(@, copy_builder)]),
                   n.v)
CopyObject(s, obj) == CopySaved(s, obj, SaveObject(TxEnter(s), obj, "latest"))
CopyReturn(h, r) ==
    Finish(r.s, roots \cup Returned(r),
           Result("copy", h, NoId, NoRef, r.s, ReturnedObj(r), NoId, NoRef,
                  <<>>))
Copy(h) == CopyReturn(h, CopyObject(Cur, h))

\* decode(encode(x), referencer) on a value the application built
RoundTripReturn(x, d) ==
    Finish(d.s, roots,
           [Result("roundtrip", None, NoId, NoRef, d.s, None, NoId, NoRef,
                   <<>>)
               EXCEPT !.arg = x, !.same = Ok(d.s) /\ ValEq(d.s, x, d.v)])
RoundTripEncoded(x, rf, en) ==
    RoundTripReturn(x, IF ~Ok(en.s) THEN en ELSE Decode(en.s, en.v, rf))
RoundTrip(x, rf) == RoundTripEncoded(x, rf, Encode(Cur, x))

\* ------------------------------------------------------------------ the application
\* car.make = v, car.colour = v, garage.car = c, ObjRef.__init__(r, t), del obj
Mutated(op, h, hp, rts) ==
    Finish([Cur EXCEPT !.heap = hp], rts,
           Result(op, h, NoId, NoRef, Cur, None, NoId, NoRef, <<>>))
SetMake(h, v) ==
    /\ heap[h].type = "Car" /\ heap[h].make # v
    /\ Mutated("set", h, [heap EXCEPT ![h].make = v], roots)
SetColour(h, v) ==
    /\ heap[h].type = "Car" /\ heap[h].colour # v
    /\ Mutated("set", h, [heap EXCEPT ![h].colour = v], roots)
SetCar(h, c) ==
    /\ heap[h].type \in {"Garage", "CommonGarage"} /\ heap[h].car # c
    /\ c # None => heap[c].type = "Car"
    /\ Mutated("set", h, [heap EXCEPT ![h].car = c], roots)
ObjRefInit(h, t) ==
    /\ heap[h].type = "ObjRef" /\ heap[h] # ObjRefOf(t)
    /\ Mutated("set", h, [heap EXCEPT ![h] = ObjRefOf(t)], roots)
Drop(h) == Mutated("del", h, heap, roots \ {h})
\* the cyclic collector runs, at a time the program does not choose
Garbage == {h \in Handles : heap[h].type # "free"} \ Reach(heap, roots)
GcCollect ==
    /\ nops < lim /\ Garbage # {}
    /\ Finished(CollectCycles(Cur, roots), roots,
                Result("gc", None, NoId, NoRef, Cur, None, NoId, NoRef, <<>>))

\* ------------------------------------------------------------------ the specifications
\* the object ids and references the application can know: those in the archive
Ids == {arch[i].id : i \in 1..Len(arch)}
Refs == {GetReference(arch[i]) : i \in 1..Len(arch)}
\* the objects the application can reach
Held == Reach(heap, roots)
\* the values the application can build: primitives, objects it holds, and
\* lists and mappings of them
Atoms == {VNone} \cup {VPrim(v) : v \in Vals} \cup {VObj(h) : h \in roots}
Inputs ==
    Atoms \cup {VList(<<a>>) : a \in Atoms}
          \cup {VList(<<a, VPrim(0)>>) : a \in Atoms}
          \cup {VDict(<<Item("x", a)>>) : a \in Atoms}

\* Historian.__init__ of the second historian, with the types registered
SecondHistorian(types) ==
    [utd |-> <<>>, records |-> <<>>, objects |-> <<>>, staged |-> <<>>,
     tc |-> 0, reg |-> types, cur |-> 1, writers |-> <<>>]

EmptyTables ==
    /\ utd = <<>> /\ records = <<>> /\ objects = <<>> /\ staged = <<>>
    /\ tc = 0 /\ reg = {} /\ arch = <<>> /\ nextId = 1
    /\ res = NoResult /\ nops = 0
    /\ chain = [id \in 1..MaxIds |-> NoChain] /\ taken = {} /\ resaved = {}
    /\ second = SecondHistorian({})
    /\ EmptyRegistry
EmptyHistorian == EmptyTables /\ cmp = NoCall /\ qm = NewModel("callable")

\* the application starts with a car and a garage that keeps it
Init ==
    /\ heap = [h \in Handles |->
                 CASE h = 1 -> ObjOf("Car", 0, 0, None)
                   [] h = 2 -> ObjOf("Garage", Unset, Unset, 1)
                   [] OTHER -> FreeSlot]
    /\ roots = {1, 2}
    /\ lim = MaxOps
    /\ EmptyHistorian

Next ==
    \/ \E h \in roots : Save(h)
    \/ \E h \in roots : SaveSnapshot(h)
    \/ \E id \in Ids : Load(id)
    \/ \E ref \in Refs : LoadSnapshot(ref)
    \/ \E id \in Ids : History(id)
    \/ \E h \in roots : Copy(h)
    \/ \E h \in roots, v \in Vals : SetMake(h, v)
    \/ \E h \in roots, v \in Vals : SetColour(h, v)
    \/ \E h \in roots, c \in roots \cup {None} : SetCar(h, c)
    \/ \E h \in roots : Drop(h)

Spec == Init /\ [][Next]_vars

\* the application starts with one car; longer runs of fewer operations
InitCar ==
    /\ heap = [h \in Handles |->
                 IF h = 1 THEN ObjOf("Car", 0, 0, None) ELSE FreeSlot]
    /\ roots = {1}
    /\ lim = MaxOpsCar
    /\ EmptyHistorian

NextCar ==
    \/ \E h \in roots : Save(h)
    \/ \E h \in roots : SaveSnapshot(h)
    \/ \E id \in Ids : Load(id)
    \/ \E ref \in Refs : LoadSnapshot(ref)
    \/ \E id \in Ids : History(id)
    \/ \E h \in roots, v \in Vals : SetMake(h, v)
    \/ \E h \in roots, v \in Vals : SetColour(h, v)
    \/ \E h \in roots : Drop(h)

SpecCar == InitCar /\ [][NextCar]_vars

\* a car and a garage; the garage may come to keep a stale snapshot of the car
NextGarage ==
    \/ \E h \in roots : Save(h)
    \/ \E ref \in Refs : LoadSnapshot(ref)
    \/ \E h \in roots, v \in Vals : SetMake(h, v)
    \/ \E h \in roots, c \in roots : SetCar(h, c)

InitGarage ==
    /\ heap = [h \in Handles |->
                 CASE h = 1 -> ObjOf("Car", 0, 0, None)
                   [] h = 2 -> ObjOf("Garage", Unset, Unset, 1)
                   [] OTHER -> FreeSlot]
    /\ roots = {1, 2}
    /\ lim = MaxOpsGarage
    /\ EmptyHistorian

SpecGarage == InitGarage /\ [][NextGarage]_vars

\* two garages that keep the same car
InitShared ==
    /\ heap = [h \in Handles |->
                 CASE h = 1 -> ObjOf("Car", 0, 0, None)
                   [] h \in {2, 3} -> ObjOf("Garage", Unset, Unset, 1)
                   [] OTHER -> FreeSlot]
    /\ roots = {2, 3}
    /\ lim = MaxOpsShared
    /\ EmptyHistorian

NextShared ==
    \/ \E h \in roots : Save(h)
    \/ \E id \in Ids : Load(id)
    \/ \E h \in Held, v \in Vals : SetMake(h, v)
    \/ \E h \in roots : Drop(h)

SpecShared == InitShared /\ [][NextShared]_vars

\* an ObjRef that refers to itself, and a car
InitCycle ==
    /\ heap = [h \in Handles |->
                 CASE h = 1 -> ObjRefOf(1)
                   [] h = 2 -> ObjOf("Car", 0, 0, None)
                   [] OTHER -> FreeSlot]
    /\ roots = {1, 2}
    /\ lim = MaxOpsCycle
    /\ EmptyHistorian

NextCycle ==
    \/ \E h \in roots : Save(h)
    \/ \E id \in Ids : Load(id)
    \/ \E h \in roots, t \in roots \cup {None} : ObjRefInit(h, t)
    \/ \E h \in roots, v \in Vals : SetMake(h, v)
    \/ \E h \in roots : Drop(h)
    \/ GcCollect

SpecCycle == InitCycle /\ [][NextCycle]_vars

\* a car and a garage that keeps it by value; values are encoded and decoded
InitCodec ==
    /\ heap = [h \in Handles |->
                 CASE h = 1 -> ObjOf("Car", 0, 0, None)
                   [] h = 2 -> ObjOf("CommonGarage", Unset, Unset, None)
                   [] OTHER -> FreeSlot]
    /\ roots = {1, 2}
    /\ lim = MaxOpsCodec
    /\ EmptyHistorian

NextCodec ==
    \/ \E x \in Inputs, rf \in {"pinned", "latest"} : RoundTrip(x, rf)
    \/ \E h \in roots, v \in Vals : SetMake(h, v)
    \/ \E h \in roots, v \in Vals : SetColour(h, v)
    \/ \E h \in roots, c \in roots \cup {None} : SetCar(h, c)

SpecCodec == InitCodec /\ [][NextCodec]_vars

\* a car and a garage that may come to keep a stale snapshot of the car,
\* loaded again by object id and through the history
NextReload ==
    \/ \E h \in roots : Save(h)
    \/ \E id \in Ids : Load(id)
    \/ \E ref \in Refs : LoadSnapshot(ref)
    \/ \E id \in Ids : History(id)
    \/ \E h \in roots, v \in Vals : SetMake(h, v)
    \/ \E h \in roots, c \in roots : SetCar(h, c)

SpecReload == InitGarage /\ [][NextReload]_vars

\* a car and a garage that keeps it, with an archive backend that may fail
InitFlush ==
    /\ heap = [h \in Handles |->
                 CASE h = 1 -> ObjOf("Car", 0, 0, None)
                   [] h = 2 -> ObjOf("Garage", Unset, Unset, 1)
                   [] OTHER -> FreeSlot]
    /\ roots = {1, 2}
    /\ lim = MaxOpsFlush
    /\ EmptyHistorian

NextFlush ==
    \/ \E h \in roots : Save(h)
    \/ \E h \in roots : SaveOffline(h)
    \/ \E id \in Ids : Load(id)
    \/ \E ref \in Refs : LoadSnapshot(ref)
    \/ \E id \in Ids : History(id)
    \/ \E h \in roots, v \in Vals : SetMake(h, v)
    \/ \E h \in roots, c \in roots \cup {None} : SetCar(h, c)

SpecFlush == InitFlush /\ [][NextFlush]_vars

\* set_historian: the application turns to the second historian
Switch ==
    /\ nops < lim
    /\ second' = [utd |-> utd, records |-> records, objects |-> objects,
                 staged |-> staged, tc |-> tc, reg |-> reg,
                 cur |-> 3 - second.cur, writers |-> second.writers]
    /\ utd' = second.utd
    /\ records' = second.records
    /\ objects' = second.objects
    /\ staged' = second.staged
    /\ tc' = second.tc
    /\ reg' = second.reg
    /\ res' = [NoResult EXCEPT !.op = "switch", !.nextIdBefore = nextId]
    /\ nops' = nops + 1
    /\ UNCHANGED <<heap, roots, arch, nextId, lim, chain, taken, resaved,
                 registry, clients>>

\* Historian.register_type called with a class
RegisterReturn(type, s) ==
    Finish(s, roots,
           [Result("register_type", None, NoId, NoRef, s, None, NoId, NoRef,
                   <<>>) EXCEPT !.cls = type])
RegisterClass(type) ==
    RegisterReturn(type, HistorianRegisterType(Cur, FALSE, type))

\* two historians on one archive, and one car; a historian registers the
\* class of an object it saves, and loads only what was registered with it
InitTwo ==
    /\ heap = [h \in Handles |->
                 IF h = 1 THEN ObjOf("Car", 0, 0, None) ELSE FreeSlot]
    /\ roots = {1}
    /\ lim = MaxOpsTwo
    /\ EmptyHistorian

NextTwo ==
    \/ \E h \in roots : Save(h)
    \/ \E id \in Ids : Load(id)
    \/ \E h \in roots, v \in Vals : SetMake(h, v)
    \/ \E h \in roots, v \in Vals : SetColour(h, v)
    \/ RegisterClass("Car")
    \/ Switch

SpecTwo == InitTwo /\ [][NextTwo]_vars

\* two cars; an object may be saved under an object id the caller chooses:
\* one with history, or one the archive never issued
InitSaveAs ==
    /\ heap = [h \in Handles |->
                 CASE h = 1 -> ObjOf("Car", 0, 0, None)
                   [] h = 2 -> ObjOf("Car", 1, 0, None)
                   [] OTHER -> FreeSlot]
    /\ roots = {1, 2}
    /\ lim = MaxOpsSaveAs
    /\ EmptyHistorian

NextSaveAs ==
    \/ \E h \in roots : Save(h)
    \/ \E h \in roots, id \in Ids \cup {MaxIds + 1} : SaveAs(h, id)
    \/ \E id \in Ids : Load(id)
    \/ \E h \in roots, v \in Vals : SetMake(h, v)
    \/ \E h \in roots : Drop(h)

SpecSaveAs == InitSaveAs /\ [][NextSaveAs]_vars

\* a car and a garage that keeps it; objects are copied and the copies and
\* the originals go their own ways
InitCopy ==
    /\ heap = [h \in Handles |->
                 CASE h = 1 -> ObjOf("Car", 0, 0, None)
                   [] h = 2 -> ObjOf("Garage", Unset, Unset, 1)
                   [] OTHER -> FreeSlot]
    /\ roots = {1, 2}
    /\ lim = MaxOpsCopy
    /\ EmptyHistorian

NextCopy ==
    \/ \E h \in roots : Save(h)
    \/ \E h \in roots : Copy(h)
    \/ \E h \in roots, v \in Vals : SetMake(h, v)
    \/ \E h \in roots, c \in roots \cup {None} : SetCar(h, c)
    \/ \E h \in roots : Drop(h)

SpecCopy == InitCopy /\ [][NextCopy]_vars

\* ------------------------------------------------------------------ the type registry in use
CurRegistry == Rg(helpers, type_ids, made)
\* a call on the registry is over; looked keeps the maps as the call found
\* them
Looked(op, arg, rg) ==
    /\ rg.made <= MaxWrappers
    /\ helpers' = rg.helpers
    /\ type_ids' = rg.type_ids
    /\ made' = rg.made
    /\ looked' = [op |-> op, arg |-> arg, err |-> rg.err, ret |-> rg.ret,
                  tid |-> rg.tid, helpers |-> helpers, type_ids |-> type_ids]
    /\ UNCHANGED <<historian, clients>>
Register(x) == Looked("register_type", x, RegisterType(CurRegistry, x))
LookupType(c) ==
    Looked("get_helper_from_obj_type", OfClass(c),
           GetHelperFromObjType(CurRegistry, c))
LookupId(t) ==
    Looked("get_helper_from_type_id", OfId(t),
           GetHelperFromTypeId(CurRegistry, t))
LookupTypeId(c) ==
    Looked("get_type_id", OfClass(c), GetTypeId(CurRegistry, c))

\* a registry, and a historian whose application has a car and an object
\* of a class (Plain) that is not a SavableComparable
InitRegistry ==
    /\ heap = [h \in Handles |->
                 CASE h = 1 -> ObjOf("Car", 0, 0, None)
                   [] h = 2 -> ObjOf("Plain", Unset, Unset, None)
                   [] OTHER -> FreeSlot]
    /\ roots = {1, 2}
    /\ lim = MaxOpsRegistry
    /\ EmptyHistorian

NextRegistry ==
    \/ \E x \in Registrable : Register(x)
    \/ \E c \in Classes : LookupType(c)
    \/ \E t \in TypeIds : LookupId(t)
    \/ \E c \in Classes : LookupTypeId(c)
    \/ \E type \in {"Car", "Plain"} : RegisterClass(type)
    \/ \E h \in roots : Save(h)

SpecRegistry == InitRegistry /\ [][NextRegistry]_vars

\* a car and a garage that keeps it, and every public operation of the
\* historian
NextPublic ==
    \/ \E h \in roots : Save(h)
    \/ \E h \in roots, id \in Ids : SaveAs(h, id)
    \/ \E h \in roots : SaveSnapshot(h)
    \/ \E id \in Ids : Load(id)
    \/ \E ref \in Refs : LoadSnapshot(ref)
    \/ \E id \in Ids : History(id)
    \/ \E h \in roots : Copy(h)
    \/ \E h \in roots : RefCall(h)
    \/ \E ref \in Refs : DerefCall(ref)
    \/ \E h \in roots, v \in Vals : SetMake(h, v)

InitPublic ==
    /\ heap = [h \in Handles |->
                 CASE h = 1 -> ObjOf("Car", 0, 0, None)
                   [] h = 2 -> ObjOf("Garage", Unset, Unset, 1)
                   [] OTHER -> FreeSlot]
    /\ roots = {1, 2}
    /\ lim = MaxOpsPublic
    /\ EmptyHistorian

SpecPublic == InitPublic /\ [][NextPublic]_vars

\* an ObjRef that refers to a car
InitRef ==
    /\ heap = [h \in Handles |->
                 CASE h = 1 -> ObjOf("Car", 0, 0, None)
                   [] h = 2 -> ObjRefOf(1)
                   [] OTHER -> FreeSlot]
    /\ roots = {2}
    /\ lim = MaxOpsRef
    /\ EmptyHistorian

NextRef ==
    \/ \E h \in roots : Save(h)
    \/ \E id \in Ids : Load(id)
    \/ \E ref \in Refs : LoadSnapshot(ref)
    \/ \E h \in roots : Call(h)
    \/ \E h \in roots : Drop(h)

SpecRef == InitRef /\ [][NextRef]_vars

\* ------------------------------------------------------------------ SpecBuild
\* garage.car = a garage (another one, or the garage itself)
Park(h, c) ==
    /\ heap[h].type = "Garage" /\ heap[c].type = "Garage"
    /\ heap[h].car # c
    /\ Mutated("set", h, [heap EXCEPT ![h].car = c], roots)

InitBuild ==
    /\ heap = [h \in Handles |->
                 CASE h = 1 -> ObjOf("Car", 0, 0, None)
                   [] h = 2 -> ObjOf("Garage", Unset, Unset, 1)
                   [] OTHER -> FreeSlot]
    /\ roots = {1, 2}
    /\ lim = MaxOpsBuild
    /\ EmptyHistorian

NextBuild ==
    \/ \E h \in roots : Save(h)
    \/ \E id \in Ids : Load(id)
    \/ \E ref \in Refs : LoadSnapshot(ref)
    \/ \E h \in roots, v \in Vals : SetMake(h, v)
    \/ \E h \in roots, c \in roots : Park(h, c)
    \/ \E h \in roots : Drop(h)
    \/ GcCollect

SpecBuild == InitBuild /\ [][NextBuild]_vars

\* ------------------------------------------------------------------ SpecList
\* a List that holds one ObjRef to a car twice (the entries of a List are
\* saved by value, the car of the ObjRef through the referencer)
InitList ==
    /\ heap = [h \in Handles |->
                 CASE h = 1 -> ObjOf("Car", 0, 0, None)
                   [] h = 2 -> ObjRefOf(1)
                   [] h = 3 -> ListOf(<<2, 2>>)
                   [] OTHER -> FreeSlot]
    /\ roots = {1, 3}
    /\ lim = MaxOpsList
    /\ EmptyHistorian

NextList ==
    \/ \E h \in roots : Save(h)
    \/ \E id \in Ids : Load(id)
    \/ \E h \in roots, v \in Vals : SetMake(h, v)
    \/ \E h \in roots : Drop(h)

SpecList == InitList /\ [][NextList]_vars

\* ------------------------------------------------------------------ SpecNested
\* list[i] = c
Put(h, i, c) ==
    /\ heap[h].type = "List" /\ i \in 1..Len(heap[h].items)
    /\ heap[c].type # "free" /\ heap[h].items[i] # c
    /\ Mutated("set", h, [heap EXCEPT ![h].items[i] = c], roots)

\* a List of an ObjRef to a car and an ObjRef to an object of a class that
\* is not savable; the application may put any of them in the list
InitNested ==
    /\ heap = [h \in Handles |->
                 CASE h = 1 -> ObjOf("Car", 0, 0, None)
                   [] h = 2 -> ObjOf("Plain", Unset, Unset, None)
                   [] h = 3 -> ObjRefOf(1)
                   [] h = 4 -> ObjRefOf(2)
                   [] h = 5 -> ListOf(<<3, 4>>)
                   [] OTHER -> FreeSlot]
    /\ roots = {2, 5}
    /\ lim = MaxOpsNested
    /\ EmptyHistorian

NextNested ==
    \/ \E h \in roots : Save(h)
    \/ \E id \in Ids : Load(id)
    \/ \E h \in Held, v \in Vals : SetMake(h, v)
    \/ \E h \in roots, i \in 1..2, c \in Held : Put(h, i, c)
    \/ \E h \in roots : Drop(h)

SpecNested == InitNested /\ [][NextNested]_vars

\* ------------------------------------------------------------------ comparing files
InitFile ==
    /\ heap = [h \in Handles |-> FreeSlot]
    /\ roots = {}
    /\ lim = 0
    /\ EmptyHistorian
\* self == other
Compare(self, other) ==
    /\ cmp.pc # "reading"
    /\ cmp' = BaseFileEq(self, other)
    /\ UNCHANGED <<historian, registry, qm>>
ComparePass ==
    /\ cmp.pc = "reading"
    /\ cmp' = BaseFileEqPass(cmp)
    /\ UNCHANGED <<historian, registry, qm>>
NextFile ==
    \/ \E a \in Contents, b \in Contents : Compare(DiskFile(a), DiskFile(b))
    \/ \E a \in Contents, b \in Contents : Compare(DiskFile(a), NotAFile(b))
    \/ ComparePass
\* the call runs on: a pass that can be taken is taken
SpecFile == InitFile /\ [][NextFile]_vars /\ WF_vars(ComparePass)

\* ------------------------------------------------------------------ the gui's query model
\* a model made with either executor
InitQuery ==
    /\ heap = [h \in Handles |-> FreeSlot]
    /\ roots = {}
    /\ lim = 0
    /\ EmptyTables
    /\ cmp = NoCall
    /\ qm \in {NewModel(executor) : executor \in Executors}
\* a call on the gui thread that invalidates the results
Invalidated(m) ==
    /\ qm.gen < MaxOpsQuery
    /\ qm' = m
    /\ UNCHANGED <<historian, registry, cmp>>
SetQuery(query) == Invalidated(InvalidateResults([qm EXCEPT !.query = query]))
SetTypeRestriction(type_id) ==
    /\ type_id # qm.type_restriction
    /\ Invalidated(InvalidateResults([qm EXCEPT !.type_restriction = type_id]))
SetSort(sort) ==
    /\ sort # qm.sort
    /\ Invalidated(InvalidateResults([qm EXCEPT !.sort = sort]))
Refresh == Invalidated(InvalidateResults(qm))
\* DbModel.historian = ...: historian_changed invalidates the results
SetHistorian(hist) ==
    Invalidated(InvalidateResults([qm EXCEPT !.historian = hist]))
\* a thread of the executor takes the oldest call waiting
Start(i) ==
    /\ qm.tasks[i].pc = "queued"
    /\ \A j \in 1 .. (i - 1) : qm.tasks[j].pc # "queued"
    /\ qm' = PerformQuery(qm, i)
    /\ UNCHANGED <<historian, registry, cmp>>
Step(i) ==
    /\ qm.tasks[i].pc = "running"
    /\ qm' = PerformQueryNext(qm, i)
    /\ UNCHANGED <<historian, registry, cmp>>
\* the event loop of the gui thread delivers the oldest signal
Deliver ==
    /\ qm.events # <<>>
    /\ qm' = InjectResults(qm)
    /\ UNCHANGED <<historian, registry, cmp>>
Work == \E i \in 1 .. Len(qm.tasks) : Start(i) \/ Step(i)
NextQuery ==
    \/ \E query \in Queries : SetQuery(query)
    \/ \E type_id \in Restrictions : SetTypeRestriction(type_id)
    \/ \E sort \in Sorts : SetSort(sort)
    \/ Refresh
    \/ \E hist \in Historians : SetHistorian(hist)
    \/ \E i \in 1 .. Len(qm.tasks) : Start(i)
    \/ \E i \in 1 .. Len(qm.tasks) : Step(i)
    \/ Deliver
\* the threads of the executor run and the event loop delivers
SpecQuery ==
    InitQuery /\ [][NextQuery]_vars /\ WF_vars(Work) /\ WF_vars(Deliver)

\* ------------------------------------------------------------------ claims
AllIds == 1..(nextId - 1)
VersionsOf(id) ==
    LET refs == GetSnapshotRefs(arch, id)
    IN [i \in 1..Len(refs) |-> refs[i].ver]
WroteFor(id) == SelectSeq(res.wrote, LAMBDA r : r.id = id)
\* the attributes a Car record keeps, as StateOf gives them
CarStateOf(record) ==
    <<DGet(record.state, "make").v, DGet(record.state, "colour").v>>

\* C1: history(id) of an object id whose object was saved N >= 1 times through
\* save(), each time after a change of its state, and whose records were
\* written by nothing else, returns N entries whose References carry the
\* versions 0..N-1, oldest first.
C1_MonotonicVersions ==
    (res.op = "history" /\ chain[res.id].pure /\ chain[res.id].n >= 1)
    => /\ res.err = "none"
       /\ [i \in 1..Len(res.entries) |-> res.entries[i].ref.ver]
             = [i \in 1..chain[res.id].n |-> i - 1]
C1_Witness ==
    /\ res.op = "history" /\ res.err = "none"
    /\ chain[res.id].pure /\ chain[res.id].n = 3 /\ Len(res.entries) = 3

\* C2: a save() that directly follows a save() of the same object returns the
\* same object id and writes no record.
C2_Dedup ==
    (/\ res.op = "save" /\ res.err = "none"
     /\ res.pop = "save" /\ res.perr = "none" /\ res.pobj = res.obj)
    => res.retId = res.pretId /\ res.wrote = <<>>

\* C3: a save() that returns stages exactly one record for the object: with
\* no prior record, version 0 under a fresh object id; with a prior record of
\* version v from which the object differs, version v+1 under the same id;
\* and it returns that object id.
C3_SaveStages ==
    (res.op = "save" /\ res.err = "none")
    => LET mine == WroteFor(res.retId)
       IN IF res.prior = NoRecord
          THEN /\ Len(mine) = 1 /\ mine[1].ver = 0
               /\ res.retId >= res.nextIdBefore
               /\ \A i \in 1..Len(res.wrote) :
                     res.wrote[i].id = res.retId => res.wrote[i] = mine[1]
          ELSE /\ res.retId = res.prior.id
               /\ res.stale => /\ Len(mine) = 1
                               /\ mine[1].ver = res.prior.ver + 1
C3_Witness ==
    /\ res.op = "save" /\ res.err = "none" /\ res.stale
    /\ res.prior.ver = 1 /\ Len(WroteFor(res.retId)) = 1

\* C4: the records written for each object id have pairwise distinct
\* versions that form exactly 0..k without a gap, and no record that was
\* written is written again with different content.
C4_VersionChains ==
    /\ \A id \in AllIds :
          LET vs == VersionsOf(id)
          IN /\ \A i, j \in 1..Len(vs) : i # j => vs[i] # vs[j]
             /\ {vs[i] : i \in 1..Len(vs)} = 0..(Len(vs) - 1)
    /\ \A i, j \in 1..Len(arch) :
          GetReference(arch[i]) = GetReference(arch[j]) => arch[i] = arch[j]

\* C5: load_snapshot(r) of a Reference r that save_snapshot returned gives an
\* object in the state the saved object had when r was returned.
C5_SnapshotPinned ==
    (res.op = "load_snapshot" /\ res.err = "none")
    => \A t \in taken : t.ref = res.ref => StateOf(heap, res.ret) = t.state

\* C6: load_snapshot of a garage record gives a garage whose car is in the
\* state of exactly the (object id, version) the record stores.
C6_PinnedNested ==
    (/\ res.op = "load_snapshot" /\ res.err = "none"
     /\ heap[res.ret].type = "Garage"
     /\ DGet(ArchLoad(arch, res.ref).state, "car").k = "ref")
    => LET c == DGet(ArchLoad(arch, res.ref).state, "car").r
       IN /\ heap[res.ret].car # None
          /\ ArchHas(arch, c)
          /\ StateOf(heap, heap[res.ret].car) = CarStateOf(ArchLoad(arch, c))
C6_Witness ==
    /\ res.op = "load_snapshot" /\ res.err = "none"
    /\ heap[res.ret].type = "Garage"
    /\ DGet(ArchLoad(arch, res.ref).state, "car").k = "ref"
    /\ LET c == DGet(ArchLoad(arch, res.ref).state, "car").r
       IN /\ c # LatestRef(Cur, c.id)
          /\ CarStateOf(ArchLoad(arch, c))
                # CarStateOf(ArchLoad(arch, LatestRef(Cur, c.id)))
          /\ res.ref # LatestRef(Cur, res.ref.id)

\* C7: load(id) of a garage whose latest record stores (cid, v) gives a garage
\* whose car is in the state of the latest archived version of cid.
C7_LatestNested ==
    (/\ res.op = "load" /\ res.err = "none"
     /\ heap[res.ret].type = "Garage"
     /\ DGet(ArchLoad(arch, LatestRef(Cur, res.id)).state, "car").k = "ref")
    => LET c == DGet(ArchLoad(arch, LatestRef(Cur, res.id)).state, "car").r
       IN /\ heap[res.ret].car # None
          /\ StateOf(heap, heap[res.ret].car)
                = CarStateOf(ArchLoad(arch, LatestRef(Cur, c.id)))
C7_Witness ==
    /\ res.op = "load" /\ res.err = "none"
    /\ heap[res.ret].type = "Garage"
    /\ DGet(ArchLoad(arch, LatestRef(Cur, res.id)).state, "car").k = "ref"
    /\ LET c == DGet(ArchLoad(arch, LatestRef(Cur, res.id)).state, "car").r
       IN /\ c # LatestRef(Cur, c.id)
          /\ CarStateOf(ArchLoad(arch, c))
                # CarStateOf(ArchLoad(arch, LatestRef(Cur, c.id)))

\* the mapping entry "car" of the latest record of a garage id
StoredCar(id) == DGet(ArchLoad(arch, LatestRef(Cur, id)).state, "car")
\* two load() calls in a row returned two garages of different object ids
\* whose latest records reference the same car id
TwoContainersLoaded ==
    /\ res.op = "load" /\ res.err = "none"
    /\ res.pop = "load" /\ res.perr = "none"
    /\ res.pid # res.id
    /\ heap[res.ret].type = "Garage" /\ heap[res.pret].type = "Garage"
    /\ StoredCar(res.id).k = "ref" /\ StoredCar(res.pid).k = "ref"
    /\ StoredCar(res.id).r.id = StoredCar(res.pid).r.id

\* C8: when two garages that keep the same car are saved and then loaded
\* with load(), the two loaded garages keep one and the same car instance.
C8_SharedIdentity ==
    TwoContainersLoaded
    => /\ heap[res.ret].car # None
       /\ heap[res.ret].car = heap[res.pret].car

\* the record that a save() wrote for the object id it returned
OwnRecord == WroteFor(res.retId)[Len(WroteFor(res.retId))]
\* C9: save() of an ObjRef that refers to itself returns without error and
\* the reference stored in the record it writes is the Reference of that
\* record; after load() the reference kept by a loaded self-referring ObjRef
\* is the one the loaded instance itself is known under.
C9_SelfReference ==
    /\ (/\ res.op = "save" /\ heap[res.obj].type = "ObjRef"
        /\ heap[res.obj].obj = res.obj /\ heap[res.obj].ref = NoRef)
       => /\ res.err = "none"
          /\ WroteFor(res.retId) # <<>>
          /\ Ref(OwnRecord.state.items[1].v, OwnRecord.state.items[2].v)
                = GetReference(OwnRecord)
    /\ (/\ res.op = "load" /\ res.err = "none"
        /\ heap[res.ret].type = "ObjRef"
        /\ heap[res.ret].ref.id = res.id)
       => /\ OHas(objects, heap[res.ret].ref)
          /\ OGet(objects, heap[res.ret].ref) = res.ret

\* C10: decode(encode(x), referencer) returns without error a value equal
\* to x under each type's own equality, for x a primitive, a list, a mapping
\* or an application object, also one that keeps another by value.
C10_RoundTrip ==
    res.op = "roundtrip" => res.err = "none" /\ res.same

\* the object saved by the operation before holds the latest record of its id
SavedLatest ==
    /\ OHas(records, res.pobj)
    /\ GetReference(OGet(records, res.pobj)) = LatestRef(Cur, res.pretId)

\* C11: a load of a Reference under which _objects keeps a live instance
\* returns that very instance and leaves the three tables as they were when
\* the instance is identical (hash and equality) to the record decoded anew;
\* otherwise it returns the new instance and _objects maps the Reference to
\* it.  In particular load(id), and the last entry of history(id), directly
\* after save() of the object whose record is the latest of id give that
\* object itself.
C11_KeepLive ==
    /\ (res.op \in {"load", "load_snapshot"} /\ res.err = "none"
        /\ res.hit # None)
       => IF res.match
          THEN res.ret = res.hit /\ res.kept
          ELSE /\ res.ret # res.hit
               /\ OHas(objects, res.target)
               /\ OGet(objects, res.target) = res.ret
    /\ (/\ res.op = "load" /\ res.err = "none"
        /\ res.pop = "save" /\ res.perr = "none" /\ res.pretId = res.id
        /\ SavedLatest)
       => res.ret = res.pobj
    /\ (/\ res.op = "history" /\ res.err = "none"
        /\ res.pop = "save" /\ res.perr = "none" /\ res.pretId = res.id
        /\ SavedLatest)
       => /\ res.entries # <<>>
          /\ res.entries[Len(res.entries)].obj = res.pobj

\* C12: whenever no transaction is executing, _up_to_date_objects is empty,
\* whether the last outermost transaction committed, was rolled back or
\* ended with an error.
C12_FreshEmpty == tc = 0 => utd = <<>>
C12_Witness ==
    /\ tc = 0 /\ res.op = "save" /\ res.err = "IOError"
    /\ Len(staged) = 2 /\ OHas(records, res.obj)
    /\ res.pop = "load" /\ res.prbTop

\* the operations that run one outermost transaction
OneTransaction == res.op \in {"save", "save_snapshot", "load", "load_snapshot"}

\* C13: save_many is only called at transaction depth 0; an operation calls
\* it at most once, with the whole staged buffer in its order, and exactly
\* once when its outermost transaction ends with records staged; after a
\* call that succeeds the archive has gained exactly the batch and the
\* staged buffer is empty.
C13_FlushAtDepthZero ==
    /\ \A i \in 1..Len(res.flushes) : res.flushes[i].depth = 0
    /\ Len(res.flushes) <= 1
    /\ res.flushes # <<>>
       => /\ res.flushes[1].batch # <<>>
          /\ SubSeq(res.flushes[1].batch, 1, Len(res.pending)) = res.pending
          /\ IF res.err = "IOError"
             THEN res.wrote = <<>> /\ staged = res.flushes[1].batch
             ELSE res.wrote = res.flushes[1].batch /\ staged = <<>>
    /\ ~(OneTransaction /\ res.flushes = <<>> /\ res.nextIdBefore < nextId)
    /\ (OneTransaction /\ res.flushes = <<>> /\ res.err = "none")
       => staged = <<>> /\ res.pending = <<>>
C13_Witness ==
    /\ res.op = "save" /\ res.err = "none"
    /\ Len(res.flushes) = 1 /\ res.rbInner
    /\ res.pending # <<>>
    /\ Len(res.flushes[1].batch) > Len(res.pending)
    /\ staged = <<>>

\* C14: when the outermost transaction of an operation is rolled back, the
\* three tables are left exactly as the operation found them, entries added
\* by inner transactions that had committed included; a rollback of an inner
\* transaction leaves what the enclosing transaction did in place.
C14_RollbackRestores ==
    /\ (OneTransaction /\ res.rbTop) => res.kept
    /\ (/\ res.op = "save" /\ res.err = "none" /\ res.rbInner /\ ~res.rbTop
        /\ res.pending = <<>> /\ WroteFor(res.retId) # <<>>)
       => /\ OHas(records, res.obj)
          /\ OGet(records, res.obj) = OwnRecord
          /\ OHas(objects, GetReference(OwnRecord))
          /\ OGet(objects, GetReference(OwnRecord)) = res.obj
C14_Witness ==
    /\ res.op = "load" /\ res.err = "none"
    /\ res.rbTop /\ res.rbInner /\ res.kept
    /\ heap[res.ret].type = "Garage"
    /\ res.pop = "save" /\ res.pretId # res.id

\* C15: when save_many raises during the flush that ends a save(), the error
\* reaches the caller, nothing is written, and the staged buffer holds, in
\* order, exactly the records the same save() writes with a working backend.
C15_FlushFailure ==
    (res.op = "save" /\ res.would # <<>>)
    => /\ res.err = "IOError"
       /\ res.wrote = <<>>
       /\ staged = res.would
C15_Witness ==
    /\ res.op = "save" /\ res.err = "IOError"
    /\ res.pending # <<>> /\ Len(res.would) > Len(res.pending) + 1
    /\ staged = res.would

\* C16: save(obj) with a working backend directly after a save(obj) whose
\* flush failed returns without error and writes each record the failed save
\* left staged exactly once, and no other.
C16_RetryAfterFailure ==
    (/\ res.op = "save" /\ res.flushes # <<>> /\ res.err # "IOError"
     /\ res.pop = "save" /\ res.perr = "IOError" /\ res.pobj = res.obj)
    => /\ res.err = "none"
       /\ res.wrote = res.pending
       /\ staged = <<>>

\* C17: with two historians on one archive, no record written by one of
\* them has the Reference of a record written by the other.
C17_DistinctVersions ==
    \A i, j \in 1..Len(arch) :
        second.writers[i] # second.writers[j]
        => GetReference(arch[i]) # GetReference(arch[j])

\* the archive as save_as found it
ArchBefore == SubSeq(arch, 1, Len(arch) - Len(res.wrote))

\* C18: after save_as(obj, id) returns, the record the cache holds for obj
\* has object id id and every record the call wrote has object id id: the
\* version after the latest when id has history and obj differs from it,
\* version 0 when id has no history in the cache or the archive.
C18_SaveAsForcesId ==
    (res.op = "save_as" /\ res.err = "none")
    => /\ OHas(records, res.obj)
       /\ OGet(records, res.obj).id = res.id
       /\ \A i \in 1..Len(res.wrote) : res.wrote[i].id = res.id
       /\ IF ArchHasHistory(ArchBefore, res.id)
          THEN \A i \in 1..Len(res.wrote) :
                  res.wrote[i].ver = ArchHistoryLast(ArchBefore, res.id).ver + 1
          ELSE res.rivals = {} /\ res.prior.id # res.id
               => Len(res.wrote) = 1 /\ res.wrote[1].ver = 0

\* C19: after save_as(obj, id) that found another live object cached under
\* id, no such object has an entry in _records or is the value of a
\* Reference of id in _objects, and every key of _objects is a Reference.
C19_SaveAsEvicts ==
    (res.op = "save_as" /\ res.err = "none" /\ res.rivals # {})
    => /\ \A o2 \in res.rivals :
            /\ ~OHas(records, o2)
            /\ \A i \in 1..Len(objects) :
                  objects[i].v = o2 => objects[i].k.id # res.id
       /\ \A i \in 1..Len(objects) : objects[i].k.id # NoId

\* the record the cache holds for a live object
RecordOf(h) == OGet(records, h)

\* C20: copy(obj) returns a new live object whose record has version 0 and
\* an object id that differs from obj's and from every id in the archive, is
\* written, and has the encoded state of obj's latest record; a later save()
\* of an object writes no record under the id of another live object of its
\* type, so copy and original each add versions to their own chain only.
C20_CopyIndependent ==
    /\ (res.op = "copy" /\ res.err = "none")
       => /\ res.ret # res.obj
          /\ OHas(records, res.ret) /\ OHas(records, res.obj)
          /\ RecordOf(res.ret).ver = 0
          /\ RecordOf(res.ret).id # RecordOf(res.obj).id
          /\ RecordOf(res.ret).id >= res.nextIdBefore
          /\ ~ArchHasHistory(ArchBefore, RecordOf(res.ret).id)
          /\ \E i \in 1..Len(res.wrote) : res.wrote[i] = RecordOf(res.ret)
          /\ RecordOf(res.ret).tid = RecordOf(res.obj).tid
          /\ RecordOf(res.ret).state = RecordOf(res.obj).state
          /\ RecordOf(res.ret).state
                = ArchHistoryLast(arch, RecordOf(res.obj).id).state
    /\ (res.op = "save" /\ res.err = "none")
       => /\ res.prior # NoRecord => res.retId = res.prior.id
          /\ \A h \in roots \ {res.obj} :
                (OHas(records, h) /\ heap[h].type = heap[res.obj].type)
                => /\ RecordOf(h).id # res.retId
                   /\ \A i \in 1..Len(res.wrote) :
                         res.wrote[i].id # RecordOf(h).id
C20_Witness ==
    /\ res.op = "save" /\ res.err = "none" /\ res.stale
    /\ res.pop = "set" /\ res.pobj = res.obj
    /\ res.prior.ver = 0 /\ res.prior.id > 1
    /\ Len(WroteFor(res.retId)) = 1
    /\ \E h \in roots \ {res.obj} :
          /\ OHas(records, h) /\ heap[h].type = heap[res.obj].type
          /\ RecordOf(h).state = res.prior.state

\* C21: during one save() every save_instance_state, load_instance_state,
\* ref and deref call the operation triggers is made with the Live
\* referencer (LatestReferencer), and during one save_snapshot() with the
\* Pinned one (the historian): the nested calls receive the referencer the
\* operation was started with.
C21_OneReferencer ==
    /\ res.op = "save" => res.used \subseteq {"latest"}
    /\ res.op = "save_snapshot" => res.used \subseteq {"pinned"}

\* the entries of the registry's map of helpers, as the call found it, whose
\* type is the queried type, and those whose type the queried type is a
\* subclass of
ExactFor(c) ==
    {i \in 1..Len(looked.helpers) : looked.helpers[i].k = c}
AncestorsOf(c) ==
    {i \in 1..Len(looked.helpers) : IsSubclass(c, looked.helpers[i].k)}
\* C22: get_helper_from_obj_type returns the helper registered for exactly
\* the queried type when there is one; otherwise it returns the helper of
\* the first type, in the order the types were registered, that the queried
\* type is a subclass of.
C22_LookupByType ==
    looked.op = "get_helper_from_obj_type" =>
        /\ ExactFor(looked.arg.c) # {}
           => /\ looked.err = "none"
              /\ \E i \in ExactFor(looked.arg.c) :
                    looked.ret = looked.helpers[i].v
        /\ (ExactFor(looked.arg.c) = {} /\ AncestorsOf(looked.arg.c) # {})
           => /\ looked.err = "none"
              /\ \E i \in AncestorsOf(looked.arg.c) :
                    /\ \A j \in AncestorsOf(looked.arg.c) : i <= j
                    /\ looked.ret = looked.helpers[i].v
C22_Witness ==
    /\ looked.op = "get_helper_from_obj_type" /\ looked.arg.c = "Racer"
    /\ Len(looked.helpers) = 2
    /\ looked.helpers[1].k = "Car" /\ looked.helpers[2].k = "SportsCar"
    /\ looked.helpers[1].v # looked.helpers[2].v
    /\ looked.ret = looked.helpers[1].v

\* the error kind of a lookup that finds no helper: the one
\* get_helper_from_obj_type and two_step_load raise ("has not been
\* registered")
UnknownType == "ValueError"
\* C23: a lookup by a type id that was never registered, and a lookup by a
\* type when neither the type nor an ancestor of it is registered, fail with
\* UnknownType, and the registry is as it was.
C23_UnknownType ==
    /\ (/\ looked.op = "get_helper_from_type_id"
        /\ ~OHas(looked.type_ids, looked.arg.tid))
       => /\ looked.err = UnknownType
          /\ helpers = looked.helpers /\ type_ids = looked.type_ids
    /\ (/\ looked.op = "get_helper_from_obj_type"
        /\ AncestorsOf(looked.arg.c) = {})
       => /\ looked.err = UnknownType
          /\ helpers = looked.helpers /\ type_ids = looked.type_ids

\* C24: register_type given something that is neither a TypeHelper nor a
\* class with the capabilities (of the registry: a subclass of types.Object;
\* of the historian: a SavableComparable) fails with TypeError and leaves
\* both maps as they were; save() of an object of an unregistered class
\* without the capabilities fails with TypeError and leaves the three
\* tables, the staged buffer, the registered types and the archive as they
\* were.
C24_Incompatible ==
    /\ (/\ looked.op = "register_type"
        /\ \/ looked.arg.k = "other"
           \/ looked.arg.k = "class" /\ ~IsSubclass(looked.arg.c, "Object"))
       => /\ looked.err = "TypeError"
          /\ helpers = looked.helpers /\ type_ids = looked.type_ids
    /\ (res.op = "register_type" /\ ~Compatible(res.cls))
       => /\ res.err = "TypeError"
          /\ reg = res.regBefore
    /\ (/\ res.op = "save" /\ ~Compatible(heap[res.obj].type)
        /\ heap[res.obj].type \notin res.regBefore)
       => /\ res.err = "TypeError"
          /\ res.kept /\ staged = res.pending /\ reg = res.regBefore
          /\ res.wrote = <<>> /\ tc = 0
C24_Witness ==
    /\ res.op = "save" /\ heap[res.obj].type = "Plain"
    /\ res.err = "TypeError" /\ records # <<>> /\ objects # <<>>
    /\ res.pop = "register_type" /\ res.perr = "TypeError"
    /\ looked.op = "register_type" /\ looked.arg.c = "int"
    /\ looked.err = "TypeError" /\ looked.helpers # <<>>

\* the public operations of the historian
PublicOps == {"save", "save_as", "save_snapshot", "load", "load_snapshot",
              "history", "copy", "ref", "deref"}
\* C25: no public operation of the historian ends with RollbackTransaction:
\* the transaction scope in which Transaction.rollback() raised it catches
\* it.
C25_RollbackCaught ==
    res.op \in PublicOps => res.err # "RollbackTransaction"
C25_Witness ==
    /\ res.op \in PublicOps /\ res.err = "none"
    /\ res.rbTop /\ res.rbInner

\* C26: _up_to_date_objects never keeps two distinct live objects under the
\* same Reference, and never keeps one object under two References: not
\* between operations, and at no instant during one.
C26_OnePerReference ==
    /\ \A i, j \in 1..Len(utd) :
          (utd[i].v = utd[j].v \/ utd[i].k = utd[j].k) => i = j
    /\ ~res.clash

\* C27: save() of an object that changed since its previous save() returns
\* an identifier other than the one the previous save() returned; and load()
\* of the identifier the first of two such saves returned, gives an object
\* in the state the object had at that first save.
C27_NewIdentifier ==
    /\ (/\ res.op = "save" /\ res.err = "none"
        /\ res.stale /\ res.prevId # NoId)
       => res.retId # res.prevId
    /\ (/\ res.op = "load" /\ res.err = "none"
        /\ chain[res.id].pure /\ chain[res.id].n = 2
        /\ heap[res.ret].type = "Car")
       => StateOf(heap, res.ret) = CarStateOf(ArchLoad(arch, Ref(res.id, 0)))

\* C28: save() of an ObjRef that was loaded and has not been dereferenced
\* since writes, if it writes, the [object id, version] the ObjRef was loaded
\* with; and dereferencing an ObjRef loaded from a record so written returns
\* an object, the one kept under the object id of that pair, and never
\* fails for want of a reference.
C28_RefKept ==
    /\ (/\ res.op = "save" /\ res.err = "none"
        /\ heap[res.obj].type = "ObjRef" /\ heap[res.obj].ref # NoRef)
       => \A i \in 1..Len(res.wrote) :
             res.wrote[i].id = res.retId
             => res.wrote[i].state
                   = VList(<<VPrim(heap[res.obj].ref.id),
                             VPrim(heap[res.obj].ref.ver)>>)
    /\ (/\ res.op = "call" /\ res.ref # NoRef /\ res.prior # NoRecord
        /\ \E e \in resaved :
              e.ref = GetReference(res.prior) /\ e.by # res.obj)
       => /\ res.err = "none" /\ res.ret # None
          /\ OHas(records, res.ret)
          /\ OGet(records, res.ret).id = res.ref.id

\* C29: save() of an ObjRef that directly follows a save() of the same
\* ObjRef, or the load() that returned it, writes no record under the
\* ObjRef's object id: a reference that was not changed is not saved again.
C29_RefNotResaved ==
    (/\ res.op = "save" /\ res.err = "none" /\ heap[res.obj].type = "ObjRef"
     /\ \/ res.pop = "save" /\ res.perr = "none" /\ res.pobj = res.obj
        \/ res.pop = "load" /\ res.perr = "none" /\ res.pret = res.obj)
    => WroteFor(res.retId) = <<>>

\* C30: two_step_load enters the blank instance in the three tables under the
\* record's Reference before the record's state is decoded and before
\* load_instance_state is called on it, and a lookup of that Reference made
\* while the instance is under construction returns that instance instead of
\* starting another load.
C30_InsertedFirst == ~res.late /\ ~res.missed
\* a load in which the instance under construction was looked up and handed
\* out: the garage loaded keeps itself
C30_Witness ==
    /\ res.op = "load" /\ res.err = "none" /\ res.found /\ ~res.missed
    /\ res.ret # None /\ heap[res.ret].car = res.ret

\* C31: within one outermost transaction at most one record is staged for a
\* live object: when save_object is asked again for an object that has a
\* record in the staged buffer (a child shared by two entries of the graph
\* being saved), it returns that record and stages nothing further.
C31_StagedOnce == ~res.twice /\ ~res.astray
\* a save of the List, saved before, after its car has changed: the car was
\* reached through both entries, and one new record each was written for the
\* list and the car
C31_Witness ==
    /\ res.op = "save" /\ res.err = "none" /\ res.again
    /\ res.prior # NoRecord /\ Len(res.wrote) = 2

\* C32: a public save that ends with an error other than a failure of the
\* archive writes no record to the archive, and leaves no entry in _objects
\* or _records for a record that is not in the archive.
C32_FailedSaveClean ==
    (res.op = "save" /\ res.err \notin {"none", "IOError"})
       => /\ res.wrote = <<>>
          /\ \A i \in 1..Len(objects) : ArchHas(arch, objects[i].k)
          /\ \A i \in 1..Len(records) :
                ArchHas(arch, GetReference(records[i].v))

\* C33: _transaction_count is never negative, and after every public
\* operation, whether it returned or raised (commit, rollback, an error in
\* the body, a failure of the archive), it is back at 0.
C33_DepthRestored == tc = 0 /\ res.low >= 0
\* a save that went three transactions deep, rolled an inner one back and
\* ended with the failure of the archive
C33_Witness ==
    /\ res.op = "save" /\ res.err = "IOError" /\ res.rbInner
    /\ res.high >= 3 /\ tc = 0

\* C34: whenever no transaction is executing and no operation has failed,
\* every entry _objects[ref] = obj has an entry _records[obj] whose record
\* has the Reference ref, and every key of _objects is a Reference.
IsReference(k) == k.id # NoId
C34_CachesAgree ==
    (tc = 0 /\ ~res.failed)
       => \A i \in 1..Len(objects) :
             /\ IsReference(objects[i].k)
             /\ OHas(records, objects[i].v)
             /\ GetReference(OGet(records, objects[i].v)) = objects[i].k

\* the References embedded in a saved state: those ref() returned, and the
\* [obj_id, version] pair an ObjRef saves
RECURSIVE RefsIn(_)
RefsIn(v) ==
    CASE v.k = "ref" -> {v.r}
      [] v.k = "list" -> UNION {RefsIn(v.items[i]) : i \in 1..Len(v.items)}
      [] v.k = "dict" -> UNION {RefsIn(v.items[i].val) : i \in 1..Len(v.items)}
      [] v.k = "enc" ->
           IF v.tid = "ObjRef" /\ v.state.k = "list"
           THEN {Ref(v.state.items[1].v, v.state.items[2].v)}
           ELSE RefsIn(v.state)
      [] OTHER -> {}
RefsOf(record) == RefsIn(VEnc(record.tid, record.state))

\* C35: whenever no transaction is executing and no flush has failed, every
\* Reference embedded in the state of a record in the archive is the
\* Reference of a record in the archive; in a batch handed to save_many a
\* record that another record of the batch refers to comes before it.
C35_RefsResolve ==
    /\ (tc = 0 /\ ~res.unflushed)
          => \A i \in 1..Len(arch) : \A r \in RefsOf(arch[i]) : ArchHas(arch, r)
    /\ \A f \in 1..Len(res.flushes) :
          \A j \in 1..Len(res.flushes[f].batch) :
             \A r \in RefsOf(res.flushes[f].batch[j]) :
                (\E k \in 1..Len(res.flushes[f].batch) :
                    GetReference(res.flushes[f].batch[k]) = r)
                  => \E k \in 1..(j - 1) :
                        GetReference(res.flushes[f].batch[k]) = r
\* a save wrote a garage's record that refers to the record of its car,
\* written before it in the same batch
C35_Witness ==
    /\ res.op = "save" /\ res.err = "none" /\ ~res.unflushed
    /\ Len(res.flushes) = 1 /\ Len(res.wrote) = 2
    /\ GetReference(res.wrote[1]) \in RefsOf(res.wrote[2])

\* C36: after any sequence of register_type calls the two maps of the
\* registry agree: for every registered type T, the helper found through
\* get_helper_from_type_id(get_type_id(T)) is the helper
\* get_helper_from_obj_type(T) returns.
ThroughTypeId(T) ==
    GetHelperFromTypeId(CurRegistry, GetTypeId(CurRegistry, T).tid)
C36_MapsAgree ==
    \A i \in 1..Len(helpers) :
       /\ GetTypeId(CurRegistry, helpers[i].k).err = "none"
       /\ ThroughTypeId(helpers[i].k).err = "none"
       /\ ThroughTypeId(helpers[i].k).ret
             = GetHelperFromObjType(CurRegistry, helpers[i].k).ret

\* C37: an ObjRef never holds a cached object and a pending Reference at
\* once, and holds a loader exactly when it holds a pending Reference; a
\* call of an ObjRef that holds an object returns it without a loader; a
\* call of one that holds a pending Reference hands that Reference to the
\* loader once, returns the object loaded and keeps it; a call of one that
\* holds neither raises RuntimeError.
C37_Shape ==
    \A h \in Handles :
       heap[h].type = "ObjRef"
          => /\ ~(heap[h].obj # None /\ heap[h].ref # NoRef)
             /\ (heap[h].loader # "none") = (heap[h].ref # NoRef)
C37_Calls ==
    res.op = "call"
       => IF res.had # None
          THEN res.err = "none" /\ res.ret = res.had /\ res.loads = <<>>
          ELSE IF res.ref = NoRef
          THEN res.err = "RuntimeError" /\ res.loads = <<>>
          ELSE /\ res.err = "none" /\ res.loads = <<res.ref>>
               /\ res.ret # None /\ heap[res.obj].obj = res.ret
C37_ObjRefStates == C37_Shape /\ C37_Calls

\* C38: BaseFile.__eq__ returns for every pair of files, True exactly when
\* the other operand is a file with the same contents and False otherwise.
C38_Decided ==
    cmp.pc = "done"
       => cmp.ret = (IsBaseFile(cmp.other) /\ DataOf(cmp.self) = DataOf(cmp.other))
C38_EqTerminates ==
    /\ []C38_Decided
    /\ (cmp.pc = "reading") ~> (cmp.pc = "done")

\* C39: once the results were invalidated, no batch of an earlier query is
\* appended to them, and in the end the model holds exactly the results of
\* the most recent query, in order.
Expected ==
    IF qm.query = "None" \/ qm.historian = "None" THEN <<>>
    ELSE Find([query |-> qm.query, obj_type |-> qm.type_restriction,
               sort |-> qm.sort])
C39_LatestResults ==
    /\ [](~qm.stale)
    /\ <>[](qm.gen > 0 => ~qm.unset /\ qm.results = Expected)
====
